---------------------------- MODULE Spec2Model ----------------------------
(***************************************************************************)
(* A model of the extraction-and-normalization core of src/arbitr.py:      *)
(* GoogleScraper's industry, country and attack-method classifiers and its *)
(* date parsing.  Python strings are modelled as sequences of one-         *)
(* character strings, so that substring tests, regular-expression word     *)
(* boundaries, case conversion and date formatting are computed the way    *)
(* the code computes them.                                                 *)
(***************************************************************************)
EXTENDS Integers, Sequences, FiniteSets, TLC

\* ------------------------------------------------------------------------
\* Characters and the str methods the code uses
\* ------------------------------------------------------------------------

LowerLetters ==
  <<"a","b","c","d","e","f","g","h","i","j","k","l","m",
    "n","o","p","q","r","s","t","u","v","w","x","y","z">>

UpperLetters ==
  <<"A","B","C","D","E","F","G","H","I","J","K","L","M",
    "N","O","P","Q","R","S","T","U","V","W","X","Y","Z">>

DigitChars == <<"0","1","2","3","4","5","6","7","8","9">>

Range(s) == {s[i] : i \in DOMAIN s}

LowerSet == Range(LowerLetters)
UpperSet == Range(UpperLetters)
DigitSet == Range(DigitChars)

IsLowerChar(c) == c \in LowerSet
IsUpperChar(c) == c \in UpperSet
IsLetter(c) == c \in LowerSet \/ c \in UpperSet
IsDigit(c) == c \in DigitSet

\* \w of Python's re: letters, digits and the underscore
WordSet == LowerSet \cup UpperSet \cup DigitSet \cup {"_"}
IsWordChar(c) == c \in WordSet

\* \s of Python's re
IsSpace(c) == c \in {" ", "\t", "\n"}

ToLower == [c \in UpperSet |-> LowerLetters[CHOOSE i \in DOMAIN UpperLetters : UpperLetters[i] = c]]
ToUpper == [c \in LowerSet |-> UpperLetters[CHOOSE i \in DOMAIN LowerLetters : LowerLetters[i] = c]]

LowerChar(c) == IF c \in UpperSet THEN ToLower[c] ELSE c
UpperChar(c) == IF c \in LowerSet THEN ToUpper[c] ELSE c

\* str.lower()
Lower(s) == [i \in 1..Len(s) |-> LowerChar(s[i])]

\* str.title(): a letter that follows a non-letter is upper-cased, any other
\* letter is lower-cased
Title(s) ==
  [i \in 1..Len(s) |->
     IF i = 1 \/ ~IsLetter(s[i-1]) THEN UpperChar(s[i]) ELSE LowerChar(s[i])]

\* sub in s (a plain substring test)
Contains(s, sub) ==
  \E i \in 0..(Len(s) - Len(sub)) : \A j \in 1..Len(sub) : s[i + j] = sub[j]

\* s[i..] starts with sub (1-based i)
StartsAt(s, sub, i) ==
  /\ i + Len(sub) - 1 <= Len(s)
  /\ \A j \in 1..Len(sub) : s[i + j - 1] = sub[j]

\* \b of Python's re at the gap before position p (1 <= p <= Len(s) + 1):
\* exactly one of the two neighbouring characters is a word character
WordCharAt(s, p) == p >= 1 /\ p <= Len(s) /\ IsWordChar(s[p])
WordBoundary(s, p) == WordCharAt(s, p - 1) # WordCharAt(s, p)

\* r'\b' + re.escape(tok) + r'\b' matches s at position i
TokenMatchAtNoBoundary(s, tok, i) == StartsAt(s, tok, i)

TokenMatchAt(s, tok, i) ==
  /\ StartsAt(s, tok, i)
  /\ WordBoundary(s, i)
  /\ WordBoundary(s, i + Len(tok))

\* re.search(r'\b' + tok + r'\b', s)
TokenSearch(s, tok) == \E i \in 1..Len(s) : TokenMatchAt(s, tok, i)

\* len(re.findall(r'\b' + tok + r'\b', s)): the scan restarts at the end of
\* each match, so the matches found do not overlap
RECURSIVE TokenFindAllFrom(_, _, _)
TokenFindAllFrom(s, tok, i) ==
  IF i + Len(tok) - 1 > Len(s) THEN 0
  ELSE IF TokenMatchAt(s, tok, i) THEN 1 + TokenFindAllFrom(s, tok, i + Len(tok))
  ELSE TokenFindAllFrom(s, tok, i + 1)

TokenFindAll(s, tok) == TokenFindAllFrom(s, tok, 1)

\* ------------------------------------------------------------------------
\* The class constants of GoogleScraper
\* ------------------------------------------------------------------------

INDUSTRY_KEYWORDS ==
  <<
   [industry |-> <<"e","n","e","r","g","y">>,
    keywords |-> <<
      <<"p","o","w","e","r"," ","g","r","i","d">>,
      <<"e","l","e","c","t","r","i","c","i","t","y"," ","t","r","a","n","s","m","i","s","s","i","o","n">>,
      <<"h","i","g","h"," ","v","o","l","t","a","g","e"," ","s","u","b","s","t","a","t","i","o","n">>,
      <<"t","r","a","n","s","f","o","r","m","e","r">>,
      <<"s","w","i","t","c","h","g","e","a","r">>,
      <<"g","r","i","d"," ","o","p","e","r","a","t","o","r">>,
      <<"p","o","w","e","r"," ","p","l","a","n","t">>,
      <<"g","a","s","-","f","i","r","e","d"," ","p","l","a","n","t">>,
      <<"s","u","b","s","t","a","t","i","o","n">>,
      <<"n","u","c","l","e","a","r"," ","p","l","a","n","t">>,
      <<"h","y","d","r","o","p","o","w","e","r"," ","d","a","m">>,
      <<"w","i","n","d"," ","f","a","r","m">>, <<"s","o","l","a","r"," ","f","a","r","m">>,
      <<"t","r","a","n","s","f","o","r","m","e","r">>,
      <<"g","a","s"," ","p","i","p","e","l","i","n","e">>,
      <<"c","o","m","p","r","e","s","s","o","r"," ","s","t","a","t","i","o","n">>,
      <<"L","N","G"," ","t","e","r","m","i","n","a","l">>,
      <<"o","i","l"," ","r","e","f","i","n","e","r","y">>,
      <<"f","u","e","l"," ","d","e","p","o","t">>,
      <<"s","t","o","r","a","g","e"," ","t","a","n","k">>,
      <<"p","u","m","p","i","n","g"," ","s","t","a","t","i","o","n">>,
      <<"h","e","a","t","i","n","g">>, <<"b","l","a","c","k","o","u","t">>,
      <<"g","r","i","d"," ","f","a","i","l","u","r","e">>, <<"S","C","A","D","A">>,
      <<"I","C","S">>, <<"p","o","w","e","r"," ","o","u","t","a","g","e">> >>],
   [industry |-> <<"t","r","a","n","s","p","o","r","t","a","t","i","o","n">>,
    keywords |-> <<
      <<"r","a","i","l","w","a","y">>, <<"r","a","i","l"," ","l","i","n","e">>,
      <<"f","r","e","i","g","h","t"," ","t","r","a","i","n">>,
      <<"r","a","i","l"," ","y","a","r","d">>,
      <<"m","a","r","s","h","a","l","l","i","n","g"," ","y","a","r","d">>,
      <<"r","a","i","l"," ","s","i","g","n","a","l","l","i","n","g">>,
      <<"s","i","g","n","a","l"," ","b","o","x">>,
      <<"s","w","i","t","c","h"," ","p","o","i","n","t","s">>,
      <<"i","n","t","e","r","l","o","c","k","i","n","g">>,
      <<"d","e","r","a","i","l","m","e","n","t">>, <<"d","e","r","a","i","l","e","d">>,
      <<"t","r","a","c","k">>, <<"b","r","i","d","g","e">>, <<"t","u","n","n","e","l">>,
      <<"p","i","e","r">>, <<"t","e","r","m","i","n","a","l">>, <<"p","o","r","t">>,
      <<"c","o","n","t","a","i","n","e","r"," ","t","e","r","m","i","n","a","l">>,
      <<"l","o","g","i","s","t","i","c","s"," ","h","u","b">>,
      <<"d","i","s","t","r","i","b","u","t","i","o","n"," ","h","u","b">>,
      <<"f","u","e","l"," ","p","i","p","e","l","i","n","e">>, <<"a","i","r","p","o","r","t">>,
      <<"r","u","n","w","a","y">>,
      <<"a","i","r"," ","t","r","a","f","f","i","c"," ","c","o","n","t","r","o","l">>,
      <<"d","e","p","o","t">>, <<"t","r","a","c","k"," ","s","e","c","t","i","o","n">> >>],
   [industry |-> <<"t","e","l","e","c","o","m","m","u","n","i","c","a","t","i","o","n","s">>,
    keywords |-> <<
      <<"t","e","l","e","c","o","m"," ","e","x","c","h","a","n","g","e">>,
      <<"t","e","l","e","p","h","o","n","e"," ","e","x","c","h","a","n","g","e">>,
      <<"m","o","b","i","l","e"," ","n","e","t","w","o","r","k">>,
      <<"c","e","l","l"," ","t","o","w","e","r">>,
      <<"b","a","s","e"," ","s","t","a","t","i","o","n">>,
      <<"c","o","r","e"," ","n","e","t","w","o","r","k">>,
      <<"n","e","t","w","o","r","k"," ","o","p","e","r","a","t","i","o","n","s"," ","c","e","n","t","r","e">>,
      <<"d","a","t","a"," ","c","e","n","t","r","e">>,
      <<"f","i","b","e","r","-","o","p","t","i","c"," ","c","a","b","l","e">>,
      <<"f","i","b","r","e","-","o","p","t","i","c"," ","c","a","b","l","e">>,
      <<"u","n","d","e","r","s","e","a"," ","c","a","b","l","e">>,
      <<"s","u","b","s","e","a"," ","c","a","b","l","e">>,
      <<"s","u","b","m","a","r","i","n","e"," ","c","a","b","l","e">>,
      <<"c","a","b","l","e"," ","l","a","n","d","i","n","g"," ","s","t","a","t","i","o","n">>,
      <<"b","a","c","k","b","o","n","e"," ","n","e","t","w","o","r","k">>,
      <<"m","i","c","r","o","w","a","v","e"," ","l","i","n","k">>,
      <<"s","a","t","e","l","l","i","t","e"," ","l","i","n","k">>,
      <<"r","o","u","t","i","n","g"," ","o","u","t","a","g","e">>,
      <<"B","G","P"," ","h","i","j","a","c","k">>, <<"c","a","b","l","e"," ","c","u","t">>,
      <<"n","e","t","w","o","r","k"," ","d","i","s","r","u","p","t","i","o","n">>,
      <<"a","n","c","h","o","r">> >>],
   [industry |-> <<"f","i","n","a","n","c","e">>,
    keywords |-> <<
      <<"b","a","n","k">>, <<"c","e","n","t","r","a","l"," ","b","a","n","k">>,
      <<"p","a","y","m","e","n","t"," ","s","y","s","t","e","m">>, <<"S","W","I","F","T">>,
      <<"S","E","P","A">>, <<"c","l","e","a","r","i","n","g"," ","h","o","u","s","e">>,
      <<"A","T","M"," ","n","e","t","w","o","r","k">>,
      <<"c","a","s","h","-","i","n","-","t","r","a","n","s","i","t">>,
      <<"b","a","n","k"," ","b","r","a","n","c","h">>, <<"v","a","u","l","t">>,
      <<"f","i","n","a","n","c","i","a","l"," ","r","e","g","u","l","a","t","o","r">>,
      <<"s","a","n","c","t","i","o","n","s"," ","e","n","f","o","r","c","e","m","e","n","t">>,
      <<"s","a","n","c","t","i","o","n","s"," ","e","v","a","s","i","o","n">>,
      <<"m","o","n","e","y"," ","l","a","u","n","d","e","r","i","n","g">>,
      <<"f","i","n","a","n","c","i","a","l"," ","c","y","b","e","r","a","t","t","a","c","k">>,
      <<"e","x","t","o","r","t","i","o","n">>, <<"r","a","n","s","o","m","w","a","r","e">>,
      <<"r","a","n","s","o","m"," ","p","a","y","m","e","n","t">>,
      <<"c","r","y","p","t","o"," ","e","x","c","h","a","n","g","e">>,
      <<"i","l","l","i","c","i","t"," ","f","i","n","a","n","c","e">> >>],
   [industry |-> <<"h","e","a","l","t","h","c","a","r","e">>,
    keywords |-> <<
      <<"h","o","s","p","i","t","a","l">>,
      <<"m","e","d","i","c","a","l"," ","c","e","n","t","r","e">>,
      <<"e","m","e","r","g","e","n","c","y"," ","d","e","p","a","r","t","m","e","n","t">>,
      <<"a","m","b","u","l","a","n","c","e"," ","s","e","r","v","i","c","e">>,
      <<"m","e","d","i","c","a","l"," ","s","u","p","p","l","y"," ","d","e","p","o","t">>,
      <<"p","h","a","r","m","a","c","e","u","t","i","c","a","l"," ","p","l","a","n","t">>,
      <<"v","a","c","c","i","n","e"," ","f","a","c","i","l","i","t","y">>,
      <<"l","a","b","o","r","a","t","o","r","y">>,
      <<"p","a","t","h","o","l","o","g","y"," ","l","a","b">>,
      <<"b","i","o","m","e","d","i","c","a","l"," ","f","a","c","i","l","i","t","y">>,
      <<"o","x","y","g","e","n"," ","s","u","p","p","l","y">>,
      <<"m","e","d","i","c","a","l"," ","g","a","s">>,
      <<"p","o","w","e","r"," ","o","u","t","a","g","e"," ","h","o","s","p","i","t","a","l">>,
      <<"b","a","c","k","u","p"," ","g","e","n","e","r","a","t","o","r"," ","f","a","i","l","u","r","e">>,
      <<"h","o","s","p","i","t","a","l"," ","r","a","n","s","o","m","w","a","r","e">>,
      <<"h","e","a","l","t","h"," ","d","a","t","a"," ","b","r","e","a","c","h">>,
      <<"m","e","d","i","c","a","l"," ","l","o","g","i","s","t","i","c","s">>,
      <<"c","o","l","d"," ","c","h","a","i","n"," ","d","i","s","r","u","p","t","i","o","n">>,
      <<"w","a","t","e","r"," ","c","o","n","t","a","m","i","n","a","t","i","o","n">>,
      <<"f","i","r","e"," ","e","v","a","c","u","a","t","i","o","n">>,
      <<"s","e","c","u","r","i","t","y"," ","i","n","c","i","d","e","n","t">> >>],
   [industry |-> <<"d","e","f","e","n","s","e">>,
    keywords |-> <<
      <<"m","i","l","i","t","a","r","y"," ","b","a","s","e">>, <<"a","i","r","b","a","s","e">>,
      <<"n","a","v","a","l"," ","b","a","s","e">>, <<"b","a","r","r","a","c","k","s">>,
      <<"m","u","n","i","t","i","o","n","s"," ","d","e","p","o","t">>,
      <<"a","m","m","o"," ","d","e","p","o","t">>,
      <<"w","e","a","p","o","n","s"," ","s","t","o","r","a","g","e">>,
      <<"f","u","e","l"," ","d","e","p","o","t">>, <<"j","e","t"," ","f","u","e","l">>,
      <<"m","i","l","i","t","a","r","y"," ","l","o","g","i","s","t","i","c","s">>,
      <<"w","e","a","p","o","n","s"," ","s","h","i","p","m","e","n","t">>,
      <<"m","i","l","i","t","a","r","y"," ","c","o","n","v","o","y">>,
      <<"r","a","i","l"," ","t","r","a","n","s","p","o","r","t"," ","m","i","l","i","t","a","r","y">>,
      <<"r","a","d","a","r"," ","s","i","t","e">>,
      <<"a","i","r"," ","d","e","f","e","n","c","e">>,
      <<"m","i","s","s","i","l","e"," ","s","y","s","t","e","m">>, <<"d","r","o","n","e">>,
      <<"U","A","V">>, <<"m","i","l","i","t","a","r","y"," ","a","i","r","c","r","a","f","t">>,
      <<"a","r","m","s"," ","f","a","c","t","o","r","y">>,
      <<"r","e","s","t","r","i","c","t","e","d"," ","a","r","e","a">>,
      <<"s","e","c","u","r","e"," ","f","a","c","i","l","i","t","y">>,
      <<"p","e","r","i","m","e","t","e","r"," ","b","r","e","a","c","h">>,
      <<"e","x","p","l","o","s","i","v","e"," ","d","e","v","i","c","e">>,
      <<"m","i","l","i","t","a","r","y"," ","a","t","t","a","c","k">> >>],
   [industry |-> <<"c","y","b","e","r","s","e","c","u","r","i","t","y">>,
    keywords |-> <<
      <<"c","y","b","e","r"," ","s","a","b","o","t","a","g","e">>,
      <<"m","a","l","w","a","r","e">>, <<"r","a","n","s","o","m","w","a","r","e">>,
      <<"D","D","o","S">>,
      <<"n","e","t","w","o","r","k"," ","i","n","t","r","u","s","i","o","n">>,
      <<"u","n","a","u","t","h","o","r","i","z","e","d"," ","a","c","c","e","s","s">>,
      <<"O","T"," ","c","o","m","p","r","o","m","i","s","e">>,
      <<"I","C","S"," ","c","o","m","p","r","o","m","i","s","e">>,
      <<"S","C","A","D","A"," ","b","r","e","a","c","h">>,
      <<"i","n","d","u","s","t","r","i","a","l"," ","c","o","n","t","r","o","l"," ","s","y","s","t","e","m">>,
      <<"P","L","C"," ","m","a","n","i","p","u","l","a","t","i","o","n">>,
      <<"r","e","m","o","t","e"," ","a","c","c","e","s","s"," ","t","r","o","j","a","n">>,
      <<"c","o","m","m","a","n","d"," ","a","n","d"," ","c","o","n","t","r","o","l">>,
      <<"A","P","T">>, <<"s","t","a","t","e","-","s","p","o","n","s","o","r","e","d">>,
      <<"c","y","b","e","r"," ","e","s","p","i","o","n","a","g","e">>,
      <<"c","y","b","e","r"," ","d","i","s","r","u","p","t","i","o","n">>,
      <<"s","a","t","e","l","l","i","t","e"," ","c","o","m","m","u","n","i","c","a","t","i","o","n","s"," ","a","t","t","a","c","k">>,
      <<"r","o","u","t","e","r"," ","c","o","m","p","r","o","m","i","s","e">>,
      <<"t","e","l","e","c","o","m"," ","n","e","t","w","o","r","k"," ","i","n","t","r","u","s","i","o","n">>,
      <<"c","y","b","e","r","a","t","t","a","c","k">>,
      <<"c","y","b","e","r"," ","a","t","t","a","c","k">>,
      <<"s","y","s","t","e","m"," ","o","u","t","a","g","e">> >>],
   [industry |-> <<"m","a","n","u","f","a","c","t","u","r","i","n","g">>,
    keywords |-> <<
      <<"f","a","c","t","o","r","y">>,
      <<"p","r","o","d","u","c","t","i","o","n"," ","f","a","c","i","l","i","t","y">>,
      <<"i","n","d","u","s","t","r","i","a","l"," ","s","i","t","e">>,
      <<"p","e","t","r","o","c","h","e","m","i","c","a","l">>, <<"p","l","a","n","t">>,
      <<"p","r","o","d","u","c","t","i","o","n"," ","h","a","l","t">> >>],
   [industry |-> <<"g","o","v","e","r","n","m","e","n","t">>,
    keywords |-> <<
      <<"g","o","v","e","r","n","m","e","n","t"," ","b","u","i","l","d","i","n","g">>,
      <<"m","i","n","i","s","t","r","y">>, <<"o","f","f","i","c","e">>,
      <<"r","e","c","r","u","i","t","m","e","n","t"," ","o","f","f","i","c","e">>,
      <<"r","e","c","r","u","i","t","m","e","n","t"," ","c","e","n","t","r","e">>,
      <<"s","t","a","t","e"," ","a","g","e","n","c","y">>,
      <<"r","e","g","u","l","a","t","o","r","y"," ","a","u","t","h","o","r","i","t","y">>,
      <<"m","u","n","i","c","i","p","a","l"," ","b","u","i","l","d","i","n","g">>,
      <<"c","i","t","y"," ","h","a","l","l">>, <<"p","r","e","f","e","c","t","u","r","e">>,
      <<"e","m","b","a","s","s","y">>, <<"c","o","n","s","u","l","a","t","e">>,
      <<"b","o","r","d","e","r"," ","p","o","l","i","c","e">>,
      <<"b","o","r","d","e","r"," ","g","u","a","r","d">>,
      <<"c","u","s","t","o","m","s"," ","s","e","r","v","i","c","e">>,
      <<"c","i","v","i","l"," ","p","r","o","t","e","c","t","i","o","n">>,
      <<"e","m","e","r","g","e","n","c","y"," ","m","a","n","a","g","e","m","e","n","t">>,
      <<"c","r","i","t","i","c","a","l"," ","i","n","f","r","a","s","t","r","u","c","t","u","r","e"," ","a","u","t","h","o","r","i","t","y">>,
      <<"c","l","a","s","s","i","f","i","e","d"," ","f","a","c","i","l","i","t","y">>,
      <<"s","e","c","u","r","e"," ","c","o","m","p","o","u","n","d">> >>]
  >>

CountryLiteralOrder ==
  <<
    <<"u","k","r","a","i","n","e">>, <<"p","o","l","a","n","d">>,
    <<"g","e","r","m","a","n","y">>, <<"f","r","a","n","c","e">>, <<"u","k">>,
    <<"u","n","i","t","e","d"," ","k","i","n","g","d","o","m">>,
    <<"g","r","e","a","t"," ","b","r","i","t","a","i","n">>, <<"e","n","g","l","a","n","d">>,
    <<"b","r","i","t","a","i","n">>, <<"e","s","t","o","n","i","a">>,
    <<"l","a","t","v","i","a">>, <<"l","i","t","h","u","a","n","i","a">>,
    <<"c","z","e","c","h">>, <<"c","z","e","c","h","i","a">>,
    <<"c","z","e","c","h"," ","r","e","p","u","b","l","i","c">>,
    <<"s","l","o","v","a","k","i","a">>, <<"r","o","m","a","n","i","a">>,
    <<"b","u","l","g","a","r","i","a">>, <<"f","i","n","l","a","n","d">>,
    <<"s","w","e","d","e","n">>, <<"n","o","r","w","a","y">>, <<"d","e","n","m","a","r","k">>,
    <<"n","e","t","h","e","r","l","a","n","d","s">>, <<"b","e","l","g","i","u","m">>,
    <<"s","p","a","i","n">>, <<"l","u","x","e","m","b","o","u","r","g">>,
    <<"h","u","n","g","a","r","y">>, <<"i","t","a","l","y">>, <<"g","r","e","e","c","e">>,
    <<"p","o","r","t","u","g","a","l">>, <<"m","o","l","d","o","v","a">>,
    <<"a","u","s","t","r","i","a">>, <<"s","w","i","t","z","e","r","l","a","n","d">>
  >>

SECURITY_SERVICES_direct ==
  <<
    <<"g","r","u">>, <<"s","v","r">>, <<"f","s","b">>,
    <<"r","u","s","s","i","a","n"," ","i","n","t","e","l","l","i","g","e","n","c","e">>
  >>

SECURITY_SERVICES_proxy ==
  <<
    <<"h","a","c","k","e","r"," ","g","r","o","u","p">>,
    <<"c","y","b","e","r","c","r","i","m","i","n","a","l">>, <<"a","c","t","i","v","i","s","t">>,
    <<"d","r","u","g">>, <<"c","r","i","m","i","n","a","l"," ","g","r","o","u","p">>,
    <<"c","r","i","m","i","n","a","l","s">>, <<"s","e","p","a","r","a","t","i","s","t">>,
    <<"m","i","l","i","t","i","a">>, <<"d","r","u","g"," ","d","e","a","l","e","r">>,
    <<"d","r","u","g"," ","l","o","r","d">>, <<"g","a","n","g">>, <<"g","a","n","g","s">>,
    <<"r","e","c","r","u","i","t">>, <<"t","r","a","i","t","o","r">>,
    <<"c","r","i","m","i","n","a","l">>, <<"f","e","l","o","n">>,
    <<"e","x","t","r","e","m","i","s","t">>, <<"e","x","t","r","e","m","i","s","t","s">>,
    <<"e","x","t","r","e","m","i","s","t"," ","g","r","o","u","p">>,
    <<"e","x","t","r","e","m","i","s","t"," ","g","r","o","u","p","s">>,
    <<"u","l","t","r","a","n","a","t","i","o","n","a","l","i","s","t">>,
    <<"u","l","t","r","a","n","a","t","i","o","n","a","l","i","s","t","s">>,
    <<"u","l","t","r","a","n","a","t","i","o","n","a","l","i","s","t"," ","g","r","o","u","p">>,
    <<"u","l","t","r","a","n","a","t","i","o","n","a","l","i","s","t"," ","g","r","o","u","p","s">>
  >>

mapping ==
  <<
    [key |-> <<"u","k">>, value |-> <<"U","n","i","t","e","d"," ","K","i","n","g","d","o","m">>],
    [key |-> <<"b","r","i","t","a","i","n">>, value |-> <<"U","n","i","t","e","d"," ","K","i","n","g","d","o","m">>],
    [key |-> <<"g","b">>, value |-> <<"U","n","i","t","e","d"," ","K","i","n","g","d","o","m">>],
    [key |-> <<"g","r","e","a","t"," ","b","r","i","t","a","i","n">>, value |-> <<"U","n","i","t","e","d"," ","K","i","n","g","d","o","m">>],
    [key |-> <<"e","n","g","l","a","n","d">>, value |-> <<"U","n","i","t","e","d"," ","K","i","n","g","d","o","m">>],
    [key |-> <<"u","k","r","a","i","n","e">>, value |-> <<"U","k","r","a","i","n","e">>],
    [key |-> <<"p","o","l","a","n","d">>, value |-> <<"P","o","l","a","n","d">>],
    [key |-> <<"g","e","r","m","a","n","y">>, value |-> <<"G","e","r","m","a","n","y">>],
    [key |-> <<"f","r","a","n","c","e">>, value |-> <<"F","r","a","n","c","e">>],
    [key |-> <<"e","s","t","o","n","i","a">>, value |-> <<"E","s","t","o","n","i","a">>],
    [key |-> <<"l","a","t","v","i","a">>, value |-> <<"L","a","t","v","i","a">>],
    [key |-> <<"l","i","t","h","u","a","n","i","a">>, value |-> <<"L","i","t","h","u","a","n","i","a">>],
    [key |-> <<"c","z","e","c","h">>, value |-> <<"C","z","e","c","h"," ","R","e","p","u","b","l","i","c">>],
    [key |-> <<"c","z","e","c","h","i","a">>, value |-> <<"C","z","e","c","h"," ","R","e","p","u","b","l","i","c">>],
    [key |-> <<"c","z","e","c","h"," ","r","e","p","u","b","l","i","c">>, value |-> <<"C","z","e","c","h"," ","R","e","p","u","b","l","i","c">>],
    [key |-> <<"s","l","o","v","a","k","i","a">>, value |-> <<"S","l","o","v","a","k","i","a">>],
    [key |-> <<"r","o","m","a","n","i","a">>, value |-> <<"R","o","m","a","n","i","a">>],
    [key |-> <<"b","u","l","g","a","r","i","a">>, value |-> <<"B","u","l","g","a","r","i","a">>],
    [key |-> <<"f","i","n","l","a","n","d">>, value |-> <<"F","i","n","l","a","n","d">>],
    [key |-> <<"s","w","e","d","e","n">>, value |-> <<"S","w","e","d","e","n">>],
    [key |-> <<"n","o","r","w","a","y">>, value |-> <<"N","o","r","w","a","y">>],
    [key |-> <<"d","e","n","m","a","r","k">>, value |-> <<"D","e","n","m","a","r","k">>],
    [key |-> <<"n","e","t","h","e","r","l","a","n","d","s">>, value |-> <<"N","e","t","h","e","r","l","a","n","d","s">>],
    [key |-> <<"b","e","l","g","i","u","m">>, value |-> <<"B","e","l","g","i","u","m">>],
    [key |-> <<"s","p","a","i","n">>, value |-> <<"S","p","a","i","n">>],
    [key |-> <<"i","t","a","l","y">>, value |-> <<"I","t","a","l","y">>],
    [key |-> <<"g","r","e","e","c","e">>, value |-> <<"G","r","e","e","c","e">>],
    [key |-> <<"p","o","r","t","u","g","a","l">>, value |-> <<"P","o","r","t","u","g","a","l">>],
    [key |-> <<"m","o","l","d","o","v","a">>, value |-> <<"M","o","l","d","o","v","a">>],
    [key |-> <<"l","u","x","e","m","b","o","u","r","g">>, value |-> <<"L","u","x","e","m","b","o","u","r","g">>],
    [key |-> <<"h","u","n","g","a","r","y">>, value |-> <<"H","u","n","g","a","r","y">>]
  >>

months ==
  <<
    [key |-> <<"j","a","n">>, value |-> <<"0","1">>],
    [key |-> <<"j","a","n","u","a","r","y">>, value |-> <<"0","1">>],
    [key |-> <<"f","e","b">>, value |-> <<"0","2">>],
    [key |-> <<"f","e","b","r","u","a","r","y">>, value |-> <<"0","2">>],
    [key |-> <<"m","a","r">>, value |-> <<"0","3">>],
    [key |-> <<"m","a","r","c","h">>, value |-> <<"0","3">>],
    [key |-> <<"a","p","r">>, value |-> <<"0","4">>],
    [key |-> <<"a","p","r","i","l">>, value |-> <<"0","4">>],
    [key |-> <<"m","a","y">>, value |-> <<"0","5">>],
    [key |-> <<"j","u","n">>, value |-> <<"0","6">>],
    [key |-> <<"j","u","n","e">>, value |-> <<"0","6">>],
    [key |-> <<"j","u","l">>, value |-> <<"0","7">>],
    [key |-> <<"j","u","l","y">>, value |-> <<"0","7">>],
    [key |-> <<"a","u","g">>, value |-> <<"0","8">>],
    [key |-> <<"a","u","g","u","s","t">>, value |-> <<"0","8">>],
    [key |-> <<"s","e","p">>, value |-> <<"0","9">>],
    [key |-> <<"s","e","p","t">>, value |-> <<"0","9">>],
    [key |-> <<"s","e","p","t","e","m","b","e","r">>, value |-> <<"0","9">>],
    [key |-> <<"o","c","t">>, value |-> <<"1","0">>],
    [key |-> <<"o","c","t","o","b","e","r">>, value |-> <<"1","0">>],
    [key |-> <<"n","o","v">>, value |-> <<"1","1">>],
    [key |-> <<"n","o","v","e","m","b","e","r">>, value |-> <<"1","1">>],
    [key |-> <<"d","e","c">>, value |-> <<"1","2">>],
    [key |-> <<"d","e","c","e","m","b","e","r">>, value |-> <<"1","2">>]
  >>

COUNTRY_KEYWORDS == Range(CountryLiteralOrder)

\* ------------------------------------------------------------------------
\* Inputs
\* ------------------------------------------------------------------------

\* The longest text is MaxFrags fragments long.
MaxFrags == 2

\* Pieces of article text: registry tokens standing alone, inside a longer
\* word ("russian", "poland" + "n"), in upper case, aliases of one country,
\* lexicon terms and taxonomy keywords.
Fragments ==
  {<<"u","k","r","a","i","n","e"," ">>,
   <<"u","k"," ">>,
   <<"U","K"," ">>,
   <<"g","r","e","a","t"," ","b","r","i","t","a","i","n"," ">>,
   <<"r","u","s","s","i","a","n"," ">>,
   <<"p","o","l","a","n","d">>,
   <<"n">>,
   <<"g","r","u"," ">>,
   <<"g","a","n","g","s"," ">>,
   <<"m","i","l","i","t","i","a"," ">>,
   <<"h","o","s","p","i","t","a","l"," ","r","a","n","s","o","m","w","a","r","e"," ">>,
   <<"s","c","a","d","a"," ">>}

OtherCountryNames ==
  {<<"g","b">>,
   <<"G","B">>,
   <<"U","K">>,
   <<"G","r","e","a","t"," ","B","r","i","t","a","i","n">>,
   <<"r","u","s","s","i","a">>,
   <<"n","e","w"," ","z","e","a","l","a","n","d">>,
   <<"s","o","u","t","h"," ","u","k","r","a","i","n","e">>}

RECURSIVE TextsOf(_)
TextsOf(n) ==
  IF n = 0 THEN {<< >>}
  ELSE LET prev == TextsOf(n - 1) IN prev \cup {t \o f : t \in prev, f \in Fragments}

Texts == TextsOf(MaxFrags)

CountryInputs == COUNTRY_KEYWORDS \cup OtherCountryNames

\* A Python set of str iterates in an order fixed by the process's hash seed;
\* these are the iteration orders the model draws from.
Reverse(s) == [i \in 1..Len(s) |-> s[Len(s) + 1 - i]]
SetOrders == {CountryLiteralOrder, Reverse(CountryLiteralOrder)}

\* ------------------------------------------------------------------------
\* dict helpers
\* ------------------------------------------------------------------------

EmptyDict == [k \in {} |-> 0]
DictGet(d, k, default) == IF k \in DOMAIN d THEN d[k] ELSE default
DictSet(d, k, v) == [x \in (DOMAIN d) \cup {k} |-> IF x = k THEN v ELSE d[x]]

SetMin(S) == CHOOSE x \in S : \A y \in S : x <= y

\* the element of a set of one element: {e(x) : x \in {v}} computes v once
\* for all the places where e uses it
TheOne(S) == CHOOSE x \in S : TRUE
SetMax(S) == CHOOSE x \in S : \A y \in S : x >= y

\* ------------------------------------------------------------------------
\* The classifiers
\* ------------------------------------------------------------------------

\* for keyword in keywords: if keyword.lower() in text:
\*     found_industries.append(industry); break
LoweredKeywords ==
  [n \in DOMAIN INDUSTRY_KEYWORDS |->
     [k \in DOMAIN INDUSTRY_KEYWORDS[n].keywords |-> Lower(INDUSTRY_KEYWORDS[n].keywords[k])]]

MatchingKeywords(text, n) ==
  {k \in DOMAIN LoweredKeywords[n] : Contains(text, LoweredKeywords[n][k])}

KeywordLoopNoBreak(text, n, found) ==
  found \o [i \in 1..Cardinality(MatchingKeywords(text, n)) |-> INDUSTRY_KEYWORDS[n].industry]

KeywordLoop(text, n, found) ==
  IF MatchingKeywords(text, n) # {}
  THEN Append(found, INDUSTRY_KEYWORDS[n].industry)
  ELSE found

\* for industry, keywords in self.INDUSTRY_KEYWORDS.items()
RECURSIVE IndustryLoop(_, _, _)
IndustryLoop(text, n, found) ==
  IF n > Len(INDUSTRY_KEYWORDS) THEN found
  ELSE IndustryLoop(text, n + 1,
         KeywordLoop(text, n, found))

extract_industries(text) == IndustryLoop(text, 1, << >>)

\* for key, value in mapping.items(): if key == country_lower or key in
\* country_lower: return value;  return country.title()
mapping_hits(c) ==
  {i \in DOMAIN mapping :
     \/ mapping[i].key = Lower(c)
     \/ Contains(Lower(c), mapping[i].key)}

normalize_country_name(c) ==
  LET hits == mapping_hits(c)
  IN  IF hits # {} THEN mapping[SetMin(hits)].value ELSE Title(c)

\* sorted(self.COUNTRY_KEYWORDS, key=len, reverse=True): a stable sort of
\* the set's iteration order by descending length
RECURSIVE SortedFrom(_, _)
SortedFrom(order, len) ==
  IF len = 0 THEN << >>
  ELSE SelectSeq(order, LAMBDA c : Len(c) = len) \o SortedFrom(order, len - 1)

sorted_countries(order) == SortedFrom(order, SetMax({Len(c) : c \in Range(order)}))

\* The values the loops below use for every text, computed once:
\* sorted_countries per iteration order, and country.lower() per token
SortedCountries == [order \in SetOrders |-> sorted_countries(order)]
country_lower_of == [c \in COUNTRY_KEYWORDS |-> Lower(c)]

\* One iteration of the loop of _extract_countries_with_counts
CountStepOverwrite(acc, c, text_lower) ==
  LET count == TokenFindAll(text_lower, country_lower_of[c])
      normalized == normalize_country_name(c)
  IN  IF count > 0
      THEN [found |-> IF normalized \in Range(acc.found) THEN acc.found
                      ELSE Append(acc.found, normalized),
            mentions |-> DictSet(acc.mentions, normalized, count)]
      ELSE acc

CountStepAlwaysAppend(acc, c, text_lower) ==
  LET count == TokenFindAll(text_lower, country_lower_of[c])
      normalized == normalize_country_name(c)
  IN  IF count > 0
      THEN [found |-> Append(acc.found, normalized),
            mentions |-> DictSet(acc.mentions, normalized,
                                 DictGet(acc.mentions, normalized, 0) + count)]
      ELSE acc

CountStep(acc, c, text_lower) ==
  LET count == TokenFindAll(text_lower, country_lower_of[c])
      normalized == normalize_country_name(c)
  IN  IF count > 0
      THEN [found |-> IF normalized \in Range(acc.found) THEN acc.found
                      ELSE Append(acc.found, normalized),
            mentions |-> DictSet(acc.mentions, normalized,
                                 DictGet(acc.mentions, normalized, 0) + count)]
      ELSE acc

RECURSIVE CountLoop(_, _, _, _)
CountLoop(acc, sorted, n, text_lower) ==
  IF n > Len(sorted) THEN acc
  ELSE CountLoop(CountStep(acc, sorted[n], text_lower), sorted, n + 1, text_lower)

extract_countries_with_counts(text, order) ==
  CountLoop([found |-> << >>, mentions |-> EmptyDict],
            SortedCountries[order], 1, Lower(text))

\* One iteration of the loop of _extract_countries
FoundStep(found, c, text_lower) ==
  IF TokenSearch(text_lower, country_lower_of[c])
  THEN LET normalized == normalize_country_name(c)
       IN  IF normalized \in Range(found) THEN found ELSE Append(found, normalized)
  ELSE found

RECURSIVE FoundLoop(_, _, _, _)
FoundLoop(found, sorted, n, text_lower) ==
  IF n > Len(sorted) THEN found
  ELSE FoundLoop(FoundStep(found, sorted[n], text_lower), sorted, n + 1, text_lower)

extract_countries(text, order) ==
  FoundLoop(<< >>, SortedCountries[order], 1, Lower(text))

\* sum(1 for keyword in keywords if keyword in text_lower)
RECURSIVE Score(_, _, _)
Score(keywords, n, text_lower) ==
  IF n > Len(keywords) THEN 0
  ELSE (IF Contains(text_lower, keywords[n]) THEN 1 ELSE 0)
       + Score(keywords, n + 1, text_lower)

direct_score_of(text) == Score(SECURITY_SERVICES_direct, 1, Lower(text))
proxy_score_of(text) == Score(SECURITY_SERVICES_proxy, 1, Lower(text))

VerdictTieDirect(direct, proxy) ==
  IF direct >= proxy THEN "direct"
  ELSE IF proxy > direct THEN "proxy"
  ELSE "unknown"

\* if direct_score > proxy_score: ... elif proxy_score > direct_score: ... else: ...
Verdict(direct, proxy) ==
  IF direct > proxy THEN "direct"
  ELSE IF proxy > direct THEN "proxy"
  ELSE "unknown"

determine_attack_method(text) == Verdict(direct_score_of(text), proxy_score_of(text))

\* ------------------------------------------------------------------------
\* Numbers, calendar dates and their text forms
\* ------------------------------------------------------------------------

None == <<"None">>

\* int(s) for a string of decimal digits
RECURSIVE ToInt(_)
ToInt(s) ==
  IF s = << >> THEN 0
  ELSE 10 * ToInt(SubSeq(s, 1, Len(s) - 1))
       + ((CHOOSE i \in DOMAIN DigitChars : DigitChars[i] = s[Len(s)]) - 1)

\* str(n) for n >= 0
RECURSIVE IntToStr(_)
IntToStr(n) ==
  IF n < 10 THEN <<DigitChars[n + 1]>>
  ELSE Append(IntToStr(n \div 10), DigitChars[(n % 10) + 1])

\* str.zfill(width)
RECURSIVE ZFill(_, _)
ZFillNoPadding(s, width) == s
ZFill(s, width) == IF Len(s) >= width THEN s ELSE ZFill(<<"0">> \o s, width)

\* str.strip()
RECURSIVE Strip(_)
Strip(s) ==
  IF s = << >> THEN s
  ELSE IF IsSpace(s[1]) THEN Strip(Tail(s))
  ELSE IF IsSpace(s[Len(s)]) THEN Strip(SubSeq(s, 1, Len(s) - 1))
  ELSE s

IsLeap(y) == (y % 4 = 0 /\ y % 100 # 0) \/ y % 400 = 0

DaysInMonth(y, m) ==
  IF m = 2 THEN (IF IsLeap(y) THEN 29 ELSE 28)
  ELSE IF m \in {4, 6, 9, 11} THEN 30 ELSE 31

RECURSIVE DaysBeforeMonth(_, _)
DaysBeforeMonth(y, m) ==
  IF m = 1 THEN 0 ELSE DaysBeforeMonth(y, m - 1) + DaysInMonth(y, m - 1)

DaysBeforeYear(y) ==
  (y - 1) * 365 + ((y - 1) \div 4) - ((y - 1) \div 100) + ((y - 1) \div 400)

\* date.toordinal(): 0001-01-01 is day 1
ToOrdinal(d) == DaysBeforeYear(d.year) + DaysBeforeMonth(d.year, d.month) + d.day

\* date.fromordinal(n) for n >= 1
FromOrdinal(n) ==
  LET y == CHOOSE yy \in ((n \div 366) + 1)..((n \div 365) + 1) :
             DaysBeforeYear(yy) < n /\ n <= DaysBeforeYear(yy + 1)
      rest == n - DaysBeforeYear(y)
      m == CHOOSE mm \in 1..12 :
             DaysBeforeMonth(y, mm) < rest /\ rest <= DaysBeforeMonth(y, mm) + DaysInMonth(y, mm)
  IN  [year |-> y, month |-> m, day |-> rest - DaysBeforeMonth(y, m)]

\* least number of digits strftime's %Y writes on this platform
VARIABLE year_width

\* strftime('%Y-%m-%d'): the C library decides whether %Y pads a year below
\* 1000 with zeros (year_width = 4) or not (year_width = 1, as glibc does)
Strftime(d) ==
  ZFill(IntToStr(d.year), year_width) \o <<"-">> \o ZFill(IntToStr(d.month), 2)
    \o <<"-">> \o ZFill(IntToStr(d.day), 2)

\* ------------------------------------------------------------------------
\* Regular expressions: a pattern is a sequence of items, each a literal
\* string or a run of min..max characters of a class (max < 0: unbounded),
\* some of them capturing groups
\* ------------------------------------------------------------------------

Fail == <<-1>>

Lit(str) == [lit |-> str, cls |-> {}, min |-> 0, max |-> 0, grp |-> 0]
\* the assertion \b
Bnd == [lit |-> << >>, cls |-> {}, min |-> 0, max |-> 0, grp |-> -1]
Rep(cls, min, max, grp) == [lit |-> << >>, cls |-> cls, min |-> min, max |-> max, grp |-> grp]

SpaceSet == {" ", "\t", "\n"}

\* the length of the run of characters of cls that starts at position pos,
\* cut at cap when cap >= 0
RECURSIVE RunLength(_, _, _, _)
RunLength(s, pos, cls, cap) ==
  IF cap = 0 \/ pos > Len(s) \/ s[pos] \notin cls THEN 0
  ELSE 1 + RunLength(s, pos + 1, cls, cap - 1)

\* The lengths matched by items k.. of pat at position pos, or Fail.  A
\* greedy quantifier takes the longest run after which the rest matches.
RECURSIVE MatchHere(_, _, _, _)
RECURSIVE TryLength(_, _, _, _, _)
TryLength(s, pos, pat, k, n) ==
  IF n < pat[k].min THEN Fail
  ELSE LET rest == MatchHere(s, pos + n, pat, k + 1)
       IN  IF rest # Fail THEN <<n>> \o rest ELSE TryLength(s, pos, pat, k, n - 1)

MatchHere(s, pos, pat, k) ==
  IF k > Len(pat) THEN << >>
  ELSE IF pat[k] = Bnd
       THEN IF WordBoundary(s, pos)
            THEN LET rest == MatchHere(s, pos, pat, k + 1)
                 IN  IF rest # Fail THEN <<0>> \o rest ELSE Fail
            ELSE Fail
  ELSE IF pat[k].lit # << >>
       THEN IF StartsAt(s, pat[k].lit, pos)
            THEN LET rest == MatchHere(s, pos + Len(pat[k].lit), pat, k + 1)
                 IN  IF rest # Fail THEN <<Len(pat[k].lit)>> \o rest ELSE Fail
            ELSE Fail
       ELSE TryLength(s, pos, pat, k, RunLength(s, pos, pat[k].cls, pat[k].max))

\* re.search(pat, s): the leftmost position with a match, and the match
NoMatch == [pos |-> 0, lens |-> << >>]

RECURSIVE SearchFrom(_, _, _)
SearchFrom(s, pat, pos) ==
  IF pos > Len(s) + 1 THEN NoMatch
  ELSE LET lens == MatchHere(s, pos, pat, 1)
       IN  IF lens # Fail THEN [pos |-> pos, lens |-> lens]
           ELSE SearchFrom(s, pat, pos + 1)

Search(s, pat) == SearchFrom(s, pat, 1)

RECURSIVE SumTo(_, _)
SumTo(lens, k) == IF k = 0 THEN 0 ELSE lens[k] + SumTo(lens, k - 1)

\* match.group(g)
Group(s, pat, m, g) ==
  LET k == CHOOSE i \in DOMAIN pat : pat[i].grp = g
      start == m.pos + SumTo(m.lens, k - 1)
  IN  SubSeq(s, start, start + m.lens[k] - 1)

\* match.end()
MatchEnd(m) == m.pos + SumTo(m.lens, Len(m.lens))

\* ------------------------------------------------------------------------
\* Date parsing
\* ------------------------------------------------------------------------

MinYear == 2000
MaxYear == 2030

\* datetime.strptime(date_str, '%Y-%m-%d') succeeds, and the year is in range
StrptimePattern ==
  <<Rep(DigitSet, 4, 4, 1), Lit(<<"-">>), Rep(DigitSet, 1, 2, 2), Lit(<<"-">>),
    Rep(DigitSet, 1, 2, 3)>>

Strptime(date_str) ==
  LET lens == MatchHere(date_str, 1, StrptimePattern, 1)
      m == [pos |-> 1, lens |-> lens]
  IN  IF lens = Fail \/ MatchEnd(m) # Len(date_str) + 1
      THEN [ok |-> FALSE, year |-> 0, month |-> 0, day |-> 0]
      ELSE LET y == ToInt(Group(date_str, StrptimePattern, m, 1))
               mo == ToInt(Group(date_str, StrptimePattern, m, 2))
               d == ToInt(Group(date_str, StrptimePattern, m, 3))
           IN  [ok |-> y >= 1 /\ mo \in 1..12 /\ d >= 1 /\ d <= DaysInMonth(y, mo),
                year |-> y, month |-> mo, day |-> d]

validate_date_any_year(date_str) == Strptime(date_str).ok

validate_date(date_str) ==
  LET parsed == Strptime(date_str)
  IN  parsed.ok /\ ~(parsed.year < MinYear \/ parsed.year > MaxYear)

\* months.get(month_str)
MonthsGet(month_str) ==
  LET hits == {i \in DOMAIN months : months[i].key = month_str}
  IN  IF hits = {} THEN None ELSE months[CHOOSE i \in hits : TRUE].value

Dash == <<"-">>

format_date_from_match(groups, format_type) ==
  LET month_str == IF format_type = "month_day_year" THEN Lower(groups[1]) ELSE Lower(groups[2])
      day == IF format_type = "month_day_year" THEN groups[2] ELSE groups[1]
      year == groups[3]
      month == MonthsGet(month_str)
  IN  IF month # None THEN year \o Dash \o month \o Dash \o ZFill(day, 2) ELSE None

try_eu_or_us_format_day_first(groups) ==
  LET day == groups[1]
      month == groups[2]
      year == groups[3]
  IN  IF ToInt(day) > 12 THEN year \o Dash \o ZFill(month, 2) \o Dash \o ZFill(day, 2)
      ELSE IF ToInt(month) > 12 THEN year \o Dash \o ZFill(day, 2) \o Dash \o ZFill(month, 2)
      ELSE year \o Dash \o ZFill(month, 2) \o Dash \o ZFill(day, 2)

try_eu_or_us_format_always_us(groups) ==
  LET day == groups[1]
      month == groups[2]
      year == groups[3]
  IN  year \o Dash \o ZFill(day, 2) \o Dash \o ZFill(month, 2)

\* _try_eu_or_us_format: groups[1] is the code's local "day", groups[2] its "month"
try_eu_or_us_format(groups) ==
  LET day == groups[1]
      month == groups[2]
      year == groups[3]
  IN  IF ToInt(day) > 12 THEN year \o Dash \o ZFill(month, 2) \o Dash \o ZFill(day, 2)
      ELSE IF ToInt(month) > 12 THEN year \o Dash \o ZFill(day, 2) \o Dash \o ZFill(month, 2)
      ELSE year \o Dash \o ZFill(day, 2) \o Dash \o ZFill(month, 2)

format_month_year(groups) ==
  LET month_str == Lower(groups[1])
      year == groups[2]
      month == MonthsGet(month_str)
  IN  IF month # None THEN year \o Dash \o month \o <<"-", "0", "1">> ELSE None

year_month_day(groups) == groups[1] \o Dash \o ZFill(groups[2], 2) \o Dash \o ZFill(groups[3], 2)

\* the list patterns of _parse_date, in its order
patterns ==
  <<[name |-> "a", groups |-> 3,
     regex |-> <<Rep(WordSet, 1, -1, 1), Rep(SpaceSet, 1, -1, 0), Rep(DigitSet, 1, 2, 2),
                 Rep({","}, 0, 1, 0), Rep(SpaceSet, 1, -1, 0), Rep(DigitSet, 4, 4, 3)>>],
    [name |-> "b", groups |-> 3,
     regex |-> <<Rep(DigitSet, 1, 2, 1), Rep(SpaceSet, 1, -1, 0), Rep(WordSet, 1, -1, 2),
                 Rep(SpaceSet, 1, -1, 0), Rep(DigitSet, 4, 4, 3)>>],
    [name |-> "c", groups |-> 3,
     regex |-> <<Rep(DigitSet, 4, 4, 1), Rep({"-", "/"}, 1, 1, 0), Rep(DigitSet, 1, 2, 2),
                 Rep({"-", "/"}, 1, 1, 0), Rep(DigitSet, 1, 2, 3)>>],
    [name |-> "d", groups |-> 3,
     regex |-> <<Rep(DigitSet, 1, 2, 1), Lit(<<"/">>), Rep(DigitSet, 1, 2, 2), Lit(<<"/">>),
                 Rep(DigitSet, 4, 4, 3)>>],
    [name |-> "e", groups |-> 3,
     regex |-> <<Rep(DigitSet, 4, 4, 1), Lit(<<".">>), Rep(DigitSet, 1, 2, 2), Lit(<<".">>),
                 Rep(DigitSet, 1, 2, 3)>>],
    [name |-> "f", groups |-> 2,
     regex |-> <<Rep(WordSet, 1, -1, 1), Rep(SpaceSet, 1, -1, 0), Rep(DigitSet, 4, 4, 2)>>]>>

\* match.groups()
Groups(s, k, m) == [g \in 1..patterns[k].groups |-> Group(s, patterns[k].regex, m, g)]

\* the formatter of pattern k applied to the match
Formatter(k, groups) ==
  CASE patterns[k].name = "a" -> format_date_from_match(groups, "month_day_year")
    [] patterns[k].name = "b" -> format_date_from_match(groups, "day_month_year")
    [] patterns[k].name = "c" -> year_month_day(groups)
    [] patterns[k].name = "d" -> try_eu_or_us_format(groups)
    [] patterns[k].name = "e" -> year_month_day(groups)
    [] patterns[k].name = "f" -> format_month_year(groups)

\* what a date function hands back: the date or None, the strategy the date
\* came from, and the exception that escaped the call instead, if one did
Result(d, strategy) == [date |-> d, via |-> strategy, raised |-> "no"]
Escaped(exc) == [date |-> None, via |-> "none", raised |-> exc]

NoDate == Result(None, "none")

\* for pattern, formatter in patterns: match = re.search(...); if match:
\*     result = formatter(match); if result and self._validate_date(result): return result
RECURSIVE PatternLoop(_, _)
PatternLoopFirstMatchWins(date_text, k) ==
  IF k > Len(patterns) THEN NoDate
  ELSE LET m == Search(date_text, patterns[k].regex)
       IN  IF m # NoMatch
           THEN LET result == Formatter(k, Groups(date_text, k, m))
                IN  IF result # None /\ validate_date(result)
                    THEN Result(result, patterns[k].name)
                    ELSE NoDate
           ELSE PatternLoop(date_text, k + 1)

PatternLoop(date_text, k) ==
  IF k > Len(patterns) THEN NoDate
  ELSE LET m == Search(date_text, patterns[k].regex)
       IN  IF m # NoMatch
           THEN LET result == Formatter(k, Groups(date_text, k, m))
                IN  IF result # None /\ validate_date(result)
                    THEN Result(result, patterns[k].name)
                    ELSE PatternLoop(date_text, k + 1)
           ELSE PatternLoop(date_text, k + 1)

\* The outcome of the try block around dateutil's parser: the exception it
\* ends with, or the text of the date the parser returned
Raised(exc) == [raised |-> exc, value |-> << >>]
Returned(str) == [raised |-> "no", value |-> str]

IsoPattern ==
  <<Rep(DigitSet, 4, 4, 1), Lit(<<"-">>), Rep(DigitSet, 2, 2, 2), Lit(<<"-">>),
    Rep(DigitSet, 2, 2, 3)>>

\* a number too long for a C int: ten digits, the first of them 3 or more
LongNumber ==
  <<Rep({"3", "4", "5", "6", "7", "8", "9"}, 1, 1, 1), Rep(DigitSet, 9, 9, 2)>>

StartsWithLongNumber(t) ==
  /\ MatchHere(t, 1, LongNumber, 1) # Fail
  /\ (Len(t) = 10 \/ t[11] \notin DigitSet)

\* default=datetime(2020, 1, 1): the year and month the parser fills in
\* where the text gives none
DefaultYearMonth == <<"2","0","2","0","-","0","1","-">>

\* the text is a number of one or two digits that is a day of January
IsDayNumber(t) ==
  /\ Len(t) \in {1, 2}
  /\ \A i \in DOMAIN t : t[i] \in DigitSet
  /\ ToInt(t) \in 1..31

\* dateutil is an optional package: the import fails where it is not
\* installed.  Where it is, the parser returns the date an ISO 8601 text
\* YYYY-MM-DD names, it takes a number from 1 to 31 standing alone for the
\* day and fills the rest from its default, and it ends with OverflowError
\* when the text starts with a number too long for a C int, which it takes
\* for the year.  For the other texts the model keeps only the outcomes
\* that lead on to the pattern table.
FuzzyOutcomes(date_text) ==
  LET t == Strip(date_text)
      p == Strptime(t)
  IN  {Raised("ImportError")}
        \cup (IF Len(t) = 10 /\ MatchHere(t, 1, IsoPattern, 1) # Fail /\ p.ok
              THEN {Returned(Strftime(p))} ELSE {})
        \cup (IF IsDayNumber(t) THEN {Returned(DefaultYearMonth \o ZFill(t, 2))} ELSE {})
        \cup (IF StartsWithLongNumber(t) THEN {Raised("OverflowError")} ELSE {})

\* try: ... return parsed_date.strftime('%Y-%m-%d')
\* except (ImportError, ValueError, TypeError): pass
\* and then the pattern table
parse_date(date_text, fuzzy_outcome) ==
  IF date_text = << >> THEN NoDate
  ELSE IF fuzzy_outcome.raised = "no" THEN Result(fuzzy_outcome.value, "fuzzy")
  ELSE IF fuzzy_outcome.raised \notin {"ImportError", "ValueError", "TypeError"}
       THEN Escaped(fuzzy_outcome.raised)
  ELSE PatternLoop(Strip(date_text), 1)

\* timedelta(days=n * per): the number of days, or -1 for OverflowError
MaxTimedeltaDays == 999999999
TimedeltaDaysIgnoringUnit(n, per) == IF n > MaxTimedeltaDays THEN -1 ELSE n
TimedeltaDays(n, per) == IF n > MaxTimedeltaDays \div per THEN -1 ELSE n * per

\* (datetime.now() - timedelta(days)).strftime('%Y-%m-%d'), or None when the
\* subtraction raises OverflowError
DaysAgo(today, days) ==
  IF days < 0 \/ ToOrdinal(today) - days < 1 THEN None
  ELSE Strftime(FromOrdinal(ToOrdinal(today) - days))

AgoPattern(unit) ==
  <<Rep(DigitSet, 1, -1, 1), Rep(SpaceSet, 1, -1, 0), Lit(unit), Rep({"s"}, 0, 1, 0),
    Rep(SpaceSet, 1, -1, 0), Lit(<<"a", "g", "o">>)>>

\* the relative phrases of _parse_google_date, in its order, with the days
\* each unit stands for
relative_units ==
  <<[unit |-> <<"d", "a", "y">>, days |-> 1],
    [unit |-> <<"w", "e", "e", "k">>, days |-> 7],
    [unit |-> <<"m", "o", "n", "t", "h">>, days |-> 30],
    [unit |-> <<"y", "e", "a", "r">>, days |-> 365]>>

RECURSIVE RelativeLoop(_, _, _)
RelativeLoop(date_text, today, k) ==
  IF k > Len(relative_units) THEN None
  ELSE LET pat == AgoPattern(relative_units[k].unit)
           m == Search(date_text, pat)
       IN  IF m # NoMatch
           THEN LET n == Group(date_text, pat, m, 1)
                    r == IF Len(n) > 9 THEN None
                         ELSE DaysAgo(today, TimedeltaDays(ToInt(n), relative_units[k].days))
                IN  IF r # None THEN r ELSE RelativeLoop(date_text, today, k + 1)
           ELSE RelativeLoop(date_text, today, k + 1)

parse_google_date(raw, today, fuzzy_outcome) ==
  IF raw = << >> THEN NoDate
  ELSE LET date_text == Lower(Strip(raw))
           relative == RelativeLoop(date_text, today, 1)
       IN  IF relative # None THEN Result(relative, "relative")
           ELSE IF Contains(date_text, <<"y","e","s","t","e","r","d","a","y">>)
                THEN Result(DaysAgo(today, 1), "relative")
           ELSE IF Contains(date_text, <<"t","o","d","a","y">>)
                THEN Result(Strftime(today), "relative")
           ELSE parse_date(date_text, fuzzy_outcome)

\* ------------------------------------------------------------------------
\* Dates in the text of a page
\* ------------------------------------------------------------------------

\* the outcome of the dateutil try block for text t in a process where
\* dateutil is installed, or is not
FuzzyOutcomeOf(t, installed) ==
  IF ~installed THEN Raised("ImportError")
  ELSE IF \E o \in FuzzyOutcomes(t) : o.raised # "ImportError"
       THEN CHOOSE o \in FuzzyOutcomes(t) : o.raised # "ImportError"
       ELSE Raised("ValueError")

MaxLines == 30
FirstPart == 1000
MaxCandidates == 5
StrictMinYear == 2020
StrictMaxYear == 2026

LetterSet == LowerSet \cup UpperSet

\* [A-Za-z]+\s+\d{1,2},?\s+\d{4}
MonthDayYearShape ==
  <<Rep(LetterSet, 1, -1, 0), Rep(SpaceSet, 1, -1, 0), Rep(DigitSet, 1, 2, 0),
    Rep({","}, 0, 1, 0), Rep(SpaceSet, 1, -1, 0), Rep(DigitSet, 4, 4, 0)>>

\* \d{1,2}\s+[A-Za-z]+\s+\d{4}
DayMonthYearShape ==
  <<Rep(DigitSet, 1, 2, 0), Rep(SpaceSet, 1, -1, 0), Rep(LetterSet, 1, -1, 0),
    Rep(SpaceSet, 1, -1, 0), Rep(DigitSet, 4, 4, 0)>>

\* \d{4}[-/]\d{1,2}[-/]\d{1,2}
YearFirstShape ==
  <<Rep(DigitSet, 4, 4, 0), Rep({"-", "/"}, 1, 1, 0), Rep(DigitSet, 1, 2, 0),
    Rep({"-", "/"}, 1, 1, 0), Rep(DigitSet, 1, 2, 0)>>

\* \d{1,2}[-/]\d{1,2}[-/]\d{4}
YearLastShape ==
  <<Rep(DigitSet, 1, 2, 0), Rep({"-", "/"}, 1, 1, 0), Rep(DigitSet, 1, 2, 0),
    Rep({"-", "/"}, 1, 1, 0), Rep(DigitSet, 4, 4, 0)>>

\* (?:published|posted|updated|date|on|by)
Labels ==
  <<<<"p","u","b","l","i","s","h","e","d">>, <<"p","o","s","t","e","d">>,
    <<"u","p","d","a","t","e","d">>, <<"d","a","t","e">>, <<"o","n">>, <<"b","y">>>>

\* label\s*:?\s*(shape): one alternative for each label; group 1 is the shape
Labelled(shape) ==
  [alts |-> [l \in DOMAIN Labels |->
               <<Lit(Labels[l]), Rep(SpaceSet, 0, -1, 0), Rep({":"}, 0, 1, 0),
                 Rep(SpaceSet, 0, -1, 0)>> \o shape],
   first |-> 5, last |-> 4 + Len(shape), labelled |-> TRUE]

\* \b(shape)\b
Unlabelled(shape) ==
  [alts |-> <<<<Bnd>> \o shape \o <<Bnd>>>>,
   first |-> 2, last |-> 1 + Len(shape), labelled |-> FALSE]

\* the list date_patterns of _extract_date_from_text, in its order
date_patterns ==
  <<Labelled(MonthDayYearShape), Labelled(DayMonthYearShape), Labelled(YearFirstShape),
    Labelled(YearLastShape), Unlabelled(MonthDayYearShape), Unlabelled(DayMonthYearShape)>>

\* \b(shape|shape|shape)\b of the scan of the first part
candidate_pattern ==
  [alts |-> <<<<Bnd>> \o MonthDayYearShape \o <<Bnd>>, <<Bnd>> \o DayMonthYearShape \o <<Bnd>>,
              <<Bnd>> \o YearFirstShape \o <<Bnd>>>>,
   first |-> 2, last |-> 1, labelled |-> FALSE]

\* re.search with re.IGNORECASE from position start on: the leftmost position
\* where an alternative matches, the first alternative that matches there,
\* and group 1 (all of the match between the two \b when p.last < p.first)
MatchAt(s, p, pos, lens) ==
  LET last == IF p.last < p.first THEN Len(lens) - 1 ELSE p.last
      from == pos + SumTo(lens, p.first - 1)
      to == pos + SumTo(lens, last) - 1
  IN  [pos |-> pos, end |-> pos + SumTo(lens, Len(lens)), group |-> SubSeq(s, from, to)]

SearchAlternatives(s, p, start) ==
  TheOne({
    TheOne({
      IF hits = {} THEN [pos |-> 0, end |-> 0, group |-> << >>]
      ELSE TheOne({
             TheOne({MatchAt(s, p, pos, lens) :
                       lens \in {MatchHere(low, pos, p.alts[
                                   SetMin({b \in DOMAIN p.alts :
                                             MatchHere(low, pos, p.alts[b], 1) # Fail})], 1)}}) :
             pos \in {SetMin(hits)}}) :
      hits \in {{pos \in start..(Len(s) + 1) :
                  \E a \in DOMAIN p.alts : MatchHere(low, pos, p.alts[a], 1) # Fail}}}) :
    low \in {Lower(s)}})

\* text.split('\n')[:n]
RECURSIVE SplitLines(_, _)
SplitLines(s, n) ==
  IF n = 0 THEN << >>
  ELSE LET newlines == {i \in 1..Len(s) : s[i] = "\n"}
       IN  IF newlines = {} THEN <<s>>
           ELSE <<SubSeq(s, 1, SetMin(newlines) - 1)>>
                  \o SplitLines(SubSeq(s, SetMin(newlines) + 1, Len(s)), n - 1)

\* for pattern in date_patterns: match = re.search(pattern, line, re.IGNORECASE)
\*     if match: parsed = self._parse_date(match.group(1)); if parsed: return parsed
RECURSIVE PatternsOfLine(_, _, _)
PatternsOfLine(line, k, installed) ==
  IF k > Len(date_patterns) THEN NoDate
  ELSE TheOne({
         IF m.pos = 0 THEN PatternsOfLine(line, k + 1, installed)
         ELSE TheOne({
                IF parsed.raised # "no" THEN parsed
                ELSE IF parsed.date # None
                     THEN Result(parsed.date,
                                 IF date_patterns[k].labelled THEN "label" ELSE "line")
                ELSE PatternsOfLine(line, k + 1, installed) :
                parsed \in {parse_date(m.group, FuzzyOutcomeOf(m.group, installed))}}) :
         m \in {SearchAlternatives(line, date_patterns[k], 1)}})

\* for line in lines
RECURSIVE LineLoop(_, _, _)
LineLoop(lines, i, installed) ==
  IF i > Len(lines) THEN NoDate
  ELSE TheOne({IF r.raised # "no" \/ r.date # None THEN r
                ELSE LineLoop(lines, i + 1, installed) :
                r \in {PatternsOfLine(lines[i], 1, installed)}})

\* re.findall(...)[:n]: the scan restarts at the end of each match
RECURSIVE FindCandidates(_, _, _)
FindCandidates(s, start, n) ==
  IF n = 0 THEN << >>
  ELSE TheOne({IF m.pos = 0 THEN << >>
                ELSE <<m.group>> \o FindCandidates(s, m.end, n - 1) :
                m \in {SearchAlternatives(s, candidate_pattern, start)}})

\* for candidate in date_candidates[:5]: parsed = self._parse_date(candidate)
\*     if parsed: date_obj = datetime.strptime(parsed, '%Y-%m-%d')
\*         if 2020 <= date_obj.year <= 2026: return parsed
RECURSIVE CandidateLoop(_, _, _)
CandidateLoop(candidates, i, installed) ==
  IF i > Len(candidates) THEN NoDate
  ELSE TheOne({
         IF parsed.raised # "no" THEN parsed
         ELSE IF /\ parsed.date # None
                 /\ Strptime(parsed.date).ok
                 /\ StrictMinYear <= Strptime(parsed.date).year
                 /\ Strptime(parsed.date).year <= StrictMaxYear
              THEN Result(parsed.date, "scan")
         ELSE CandidateLoop(candidates, i + 1, installed) :
         parsed \in {parse_date(candidates[i], FuzzyOutcomeOf(candidates[i], installed))}})

first_part(s) == SubSeq(s, 1, IF Len(s) < FirstPart THEN Len(s) ELSE FirstPart)

extract_date_from_text(s, installed) ==
  TheOne({IF found.raised # "no" \/ found.date # None THEN found
          ELSE CandidateLoop(FindCandidates(first_part(s), 1, MaxCandidates), 1, installed) :
          found \in {LineLoop(SplitLines(s, MaxLines), 1, installed)}})

\* ------------------------------------------------------------------------
\* Fetching a page
\* ------------------------------------------------------------------------

excluded_domains ==
  <<<<"y","o","u","t","u","b","e",".","c","o","m">>, <<"y","o","u","t","u",".","b","e">>,
    <<"i","n","s","t","a","g","r","a","m",".","c","o","m">>, <<"v","i","m","e","o",".","c","o","m">>>>

\* any(domain in url_lower for domain in excluded_domains)
IsExcluded(url_lower) == \E d \in DOMAIN excluded_domains : Contains(url_lower, excluded_domains[d])

\* A page as the driver shows it: whether driver.get raises, the content
\* attributes of the meta elements found, in the order of meta_selectors,
\* the datetime attributes of the time elements, and the text the content
\* selectors end with.

\* for attr, value in meta_selectors: ... parsed = self._parse_date(content)
\*     if parsed: return parsed ... except (NoSuchElementException, Exception): continue
RECURSIVE MetaLoop(_, _, _)
MetaLoop(contents, i, installed) ==
  IF i > Len(contents) THEN None
  ELSE IF contents[i] = << >> THEN MetaLoop(contents, i + 1, installed)
  ELSE TheOne({IF parsed.raised = "no" /\ parsed.date # None THEN parsed.date
                ELSE MetaLoop(contents, i + 1, installed) :
                parsed \in {parse_date(contents[i], FuzzyOutcomeOf(contents[i], installed))}})

\* try: for time_elem in time_elements: ... except Exception: pass
RECURSIVE TimeLoop(_, _, _)
TimeLoop(times, i, installed) ==
  IF i > Len(times) THEN None
  ELSE IF times[i] = << >> THEN TimeLoop(times, i + 1, installed)
  ELSE TheOne({IF parsed.raised # "no" THEN None
                ELSE IF parsed.date # None THEN parsed.date
                ELSE TimeLoop(times, i + 1, installed) :
                parsed \in {parse_date(times[i], FuzzyOutcomeOf(times[i], installed))}})

extract_date_from_meta(page, installed) ==
  TheOne({IF parsed # None THEN parsed ELSE TimeLoop(page.times, 1, installed) :
          parsed \in {MetaLoop(page.meta, 1, installed)}})

\* What fetch_article_content leaves: article.date, the text it returns, the
\* date functions it called, the source the date came from if it set one,
\* and the exception it raised or the one its except clause caught
Fetched(d, returned, called, source, exc, error) ==
  [date |-> d, returned |-> returned, calls |-> called, source |-> source,
   raised |-> exc, caught |-> error]

fetch_article_content_meta_overwrites(article_date, article_url, page, installed) ==
  IF article_url = None THEN Fetched(article_date, None, {}, "none", "AttributeError", "no")
  ELSE IF IsExcluded(Lower(article_url)) THEN Fetched(article_date, << >>, {}, "none", "no", "no")
  ELSE IF page.get # "ok" THEN Fetched(article_date, << >>, {}, "none", "no", page.get)
  ELSE Fetched(extract_date_from_meta(page, installed), Strip(page.content), {"meta"}, "meta",
               "no", "no")

fetch_article_content(article_date, article_url, page, installed) ==
  IF article_url = None THEN Fetched(article_date, None, {}, "none", "AttributeError", "no")
  ELSE IF IsExcluded(Lower(article_url)) THEN Fetched(article_date, << >>, {}, "none", "no", "no")
  ELSE IF page.get # "ok" THEN Fetched(article_date, << >>, {}, "none", "no", page.get)
  ELSE LET meta_calls == IF article_date = None THEN {"meta"} ELSE {}
       IN  TheOne({
             IF from_meta = None /\ page.content # << >>
             THEN TheOne({
                    IF scanned.raised # "no"
                    THEN Fetched(from_meta, << >>, meta_calls \cup {"text"}, "none", "no",
                                 scanned.raised)
                    ELSE Fetched(scanned.date, Strip(page.content), meta_calls \cup {"text"},
                                 IF scanned.date # None THEN scanned.via ELSE "none", "no", "no") :
                    scanned \in {extract_date_from_text(page.content, installed)}})
             ELSE Fetched(from_meta, Strip(page.content), meta_calls,
                          IF article_date = None /\ from_meta # None THEN "meta" ELSE "none",
                          "no", "no") :
             from_meta \in {IF article_date = None THEN extract_date_from_meta(page, installed)
                            ELSE article_date}})

\* ------------------------------------------------------------------------
\* The two loops over self.articles
\* ------------------------------------------------------------------------

\* sep.join(lines)
RECURSIVE JoinWith(_, _)
JoinWith(lines, sep) ==
  IF lines = << >> THEN << >>
  ELSE IF Len(lines) = 1 THEN lines[1]
  ELSE lines[1] \o sep \o JoinWith(Tail(lines), sep)

\* s.split('\n')
SplitAll(s) == SplitLines(s, Len(s) + 1)

\* line.count(c)
CountChar(line, c) == Cardinality({i \in 1..Len(line) : line[i] = c})

\* if len(line) < 3: continue
\* if 'http' in line.lower() or line.count('/') > 3: continue
KeepLine(line) ==
  /\ Len(line) >= 3
  /\ ~Contains(Lower(line), <<"h","t","t","p">>)
  /\ CountChar(line, "/") <= 3

\* the first three quarters of the lines, stripped, without the short lines
\* and the lines with links, joined by spaces
main_body_lines_of(content_lines) ==
  SubSeq(content_lines, 1, (Len(content_lines) * 3) \div 4)

filtered_lines_of(lines) == SelectSeq([i \in DOMAIN lines |-> Strip(lines[i])], KeepLine)

main_body_of(content) ==
  LET main_body == JoinWith(main_body_lines_of(SplitAll(content)), <<"\n">>)
  IN  JoinWith(filtered_lines_of(SplitAll(main_body)), <<" ">>)

\* the text analyze_articles hands to the classifiers
analysis_text(title, snippet, content) ==
  IF content # None /\ content # << >>
  THEN Lower(title \o <<" ">> \o main_body_of(content))
  ELSE Lower(title \o <<" ">> \o snippet)

\* the position of the loop after an exception in the processing of article
\* i of n: the exception ends the loop
next_after_error_abort(i, n) == n + 1

\* except Exception ...: continue
next_after_error(i, n) == i + 1

\* if article.industries is None: article.industries = [] and so on;
\* a.unset holds the names of the fields that are None
with_defaults(a) ==
  [a EXCEPT !.industries = IF "industries" \in a.unset THEN << >> ELSE @,
            !.countries = IF "countries" \in a.unset THEN << >> ELSE @,
            !.country_mentions = IF "country_mentions" \in a.unset THEN EmptyDict ELSE @,
            !.unset = {}]

\* ------------------------------------------------------------------------
\* Date inputs
\* ------------------------------------------------------------------------

\* day and month numbers as they are written in a date text
NumStrs ==
  {<<"0">>, <<"2">>, <<"0","5">>, <<"1","2">>, <<"1","3">>, <<"2","9">>, <<"3","1">>}

MonthNumStrs ==
  {<<"0">>, <<"2">>, <<"1","2">>, <<"1","3">>}

YearStrs ==
  {<<"1","9","9","9">>, <<"2","0","0","0">>, <<"2","0","2","3">>, <<"2","0","3","0">>,
   <<"2","0","3","1">>}

\* month words: names and abbreviations of the table, and a word that is none
MonthStrs ==
  {<<"j","a","n">>, <<"F","e","b">>, <<"s","e","p","t">>, <<"s","m","a","r","c","h">>}

AgoCounts ==
  {<<"0">>, <<"3">>, <<"3","0">>, <<"4","0","0","0","0","0">>,
   <<"9","9","9","9","9","9","9","9","9">>,
   <<"9","9","9","9","9","9","9","9","9","9">>}

AgoUnits ==
  {<<"d","a","y">>, <<"d","a","y","s">>, <<"w","e","e","k">>, <<"w","e","e","k","s">>,
   <<"m","o","n","t","h">>, <<"m","o","n","t","h","s">>, <<"y","e","a","r">>,
   <<"y","e","a","r","s">>}

\* empty text, text with no date, padded text, two dates in one text
OtherDateTexts ==
  {<<>>, <<"h","e","l","l","o">>, <<"y","e","s","t","e","r","d","a","y">>,
   <<"T","o","d","a","y">>,
   <<"u","p","d","a","t","e","d"," ","3"," ","d","a","y","s"," ","a","g","o">>,
   <<" "," ","2","0","2","3","-","0","2","-","1","2"," ">>,
   <<"m","a","y"," ","2","0","2","3"," ","j","a","n"," ","2"," ","2","0","0","0">>,
   <<"1","2"," ","2","0","2","3"," ","j","a","n"," ","2",","," ","2","0","0","0">>,
   <<"2"," ","w","e","e","k","s"," ","a","g","o",","," ","j","a","n"," ","2"," ","2","0","0","0">>,
   <<" ">>}

Sp == <<" ">>
Slash == <<"/">>
Dot == <<".">>

MonthDayYearTexts ==
  {mo \o Sp \o d \o comma \o Sp \o y :
     mo \in MonthStrs, d \in NumStrs, y \in YearStrs, comma \in {<< >>, <<",">>}}

DayMonthYearTexts == {d \o Sp \o mo \o Sp \o y : d \in NumStrs, mo \in MonthStrs, y \in YearStrs}

YearMonthDayTexts ==
  {y \o sep \o mo \o sep \o d :
     y \in YearStrs, mo \in MonthNumStrs, d \in NumStrs, sep \in {Dash, Slash, Dot}}

SlashTexts == {a \o Slash \o b \o Slash \o y : a \in NumStrs, b \in NumStrs, y \in YearStrs}

MonthYearTexts == {mo \o Sp \o y : mo \in MonthStrs, y \in YearStrs}

RelativeTexts == {n \o Sp \o u \o Sp \o <<"a", "g", "o">> : n \in AgoCounts, u \in AgoUnits}

\* every key of the months table, in lower case, capitalized or in capitals
Upper(s) == [i \in 1..Len(s) |-> UpperChar(s[i])]

MonthWords ==
  {CASE i % 3 = 0 -> months[i].key
     [] i % 3 = 1 -> Title(months[i].key)
     [] i % 3 = 2 -> Upper(months[i].key) : i \in DOMAIN months}

AllMonthTexts ==
  UNION {{w \o Sp \o <<"5", ",">> \o Sp \o <<"2","0","2","3">>,
          w \o Sp \o <<"1","5">> \o Sp \o <<"2","0","2","0">>,
          <<"1","6">> \o Sp \o w \o Sp \o <<"2","0","2","4">>} : w \in MonthWords}

\* 'Jan 15, 2020', '16 March 2024', '2020/1/5'
ExampleTexts ==
  {<<"J","a","n"," ","1","5",","," ","2","0","2","0">>,
   <<"1","6"," ","M","a","r","c","h"," ","2","0","2","4">>,
   <<"2","0","2","0","/","1","/","5">>}

\* a relative phrase and an absolute date in one text, in either order
RelativePhrases ==
  {<<"3"," ","d","a","y","s"," ","a","g","o">>,
   <<"2"," ","m","o","n","t","h","s"," ","a","g","o">>,
   <<"Y","e","s","t","e","r","d","a","y">>, <<"t","o","d","a","y">>}

AbsoluteDates ==
  {<<"j","a","n"," ","2"," ","2","0","0","0">>, <<"2","0","2","3","-","0","2","-","1","2">>}

MixedTexts ==
  {r \o <<",", " ">> \o a : r \in RelativePhrases, a \in AbsoluteDates}
    \cup {a \o Sp \o r : r \in RelativePhrases, a \in AbsoluteDates}

DateTexts ==
  MonthDayYearTexts \cup DayMonthYearTexts \cup YearMonthDayTexts \cup SlashTexts
    \cup MonthYearTexts \cup AllMonthTexts \cup ExampleTexts \cup RelativeTexts
    \cup MixedTexts \cup OtherDateTexts \cup NumStrs

\* the values of datetime.now() the model draws from
Nows == {[year |-> 2024, month |-> 6, day |-> 10], [year |-> 2026, month |-> 11, day |-> 5]}

\* ------------------------------------------------------------------------
\* Page inputs
\* ------------------------------------------------------------------------

\* the date text of a result of the index page
IndexTexts ==
  {<< >>, <<"3"," ","d","a","y","s"," ","a","g","o">>, <<"J","a","n"," ","1","5",","," ","2","0","2","0">>, <<"h","e","l","l","o">>, <<"9","9","9","9","9","9","9","9","9","9">>}

PlainUrl == <<"h","t","t","p","s",":","/","/","n","e","w","s",".","e","x","a","m","p","l","e","/","a">>
ExcludedUrl == <<"h","t","t","p","s",":","/","/","w","w","w",".","Y","o","u","T","u","b","e",".","c","o","m","/","w","a","t","c","h">>

\* content attributes of the meta elements of a page: none; one with a
\* timestamp; an empty one, one of a year out of range, a good one; no date
MetaContents ==
  {<< >>, <<<<"2","0","2","3","-","0","2","-","1","2","T","1","0",":","0","0",":","0","0","Z">>>>, <<<< >>, <<"1","9","9","9","-","0","1","-","0","1">>, <<"2","0","2","4","-","0","1","-","0","5">>>>, <<<<"s","o","o","n">>>>}

\* datetime attributes of the time elements that go with them
TimesOf(meta) == IF meta = <<<<"s","o","o","n">>>> THEN <<<<"l","a","t","e","r">>, <<"2","0","2","2","-","0","5","-","0","6">>>> ELSE << >>

\* a line of FirstPart characters with no date in it
Padding == [i \in 1..FirstPart |-> "."]

\* MaxLines lines with no date in them
Lines == [i \in 1..(2 * MaxLines) |-> IF i % 2 = 1 THEN "x" ELSE "\n"]

\* the text of a page: the page has no text;
\* a labelled date;
\* an unlabelled date of 2010 in a line;
\* an unlabelled date in the first line, a labelled one in the second;
\* an unlabelled and a labelled date in one line;
\* an unlabelled ISO date of 2019;
\* an unlabelled ISO date of 2021;
\* six ISO dates, the sixth alone in the window;
\* five ISO dates, the fifth alone in the window;
\* a label before a day/month/year date;
\* a labelled ISO date of 1999;
\* an unlabelled day month year date;
\* no date;
\* blank lines only;
\* a date after FirstPart characters; a date after MaxLines lines
BodyTexts ==
  {<< >>,
   <<"P","u","b","l","i","s","h","e","d",":"," ","J","a","n"," ","1","5",","," ","2","0","2","1","\n","b","o","d","y">>,
   <<"J","a","n"," ","1","5",","," ","2","0","1","0"," ","s","t","o","r","y">>,
   <<"J","a","n"," ","1","5",","," ","2","0","2","1","\n","P","u","b","l","i","s","h","e","d",":"," ","F","e","b"," ","3",","," ","2","0","2","2">>,
   <<"J","a","n"," ","1","5",","," ","2","0","2","1"," ","a","n","d"," ","P","o","s","t","e","d"," ","F","e","b"," ","3",","," ","2","0","2","2">>,
   <<"r","e","p","o","r","t"," ","2","0","1","9","-","0","3","-","0","4"," ","f","i","l","e","d">>,
   <<"r","e","p","o","r","t"," ","2","0","2","1","-","0","3","-","0","4"," ","f","i","l","e","d">>,
   <<"2","0","1","9","-","0","1","-","0","1"," ","2","0","1","9","-","0","1","-","0","2"," ","2","0","1","9","-","0","1","-","0","3"," ","2","0","1","9","-","0","1","-","0","4"," ","2","0","1","9","-","0","1","-","0","5"," ","2","0","2","1","-","0","3","-","0","4">>,
   <<"2","0","1","9","-","0","1","-","0","1"," ","2","0","1","9","-","0","1","-","0","2"," ","2","0","1","9","-","0","1","-","0","3"," ","2","0","1","9","-","0","1","-","0","4"," ","2","0","2","1","-","0","3","-","0","4">>,
   <<"o","n"," ","5","/","6","/","2","0","2","1">>,
   <<"d","a","t","e",":"," ","1","9","9","9","-","1","2","-","1","2">>,
   <<"1","6"," ","M","a","r","c","h"," ","2","0","2","4"," ","u","p","d","a","t","e">>,
   <<"n","o"," ","d","a","t","e"," ","h","e","r","e">>,
   <<" ","\n"," ">>,
   Padding \o <<" ","2","0","2","1","-","0","3","-","0","4">>,
   Lines \o <<"P","u","b","l","i","s","h","e","d",":"," ","J","a","n"," ","1","5",","," ","2","0","2","1">>,
   Lines \o <<"P","u","b","l","i","s","h","e","d",":"," ","J","a","n"," ","1","5",","," ","2","0","1","0">>}

EmptyPage == [get |-> "ok", meta |-> << >>, times |-> << >>, content |-> << >>]

Pages ==
  {[get |-> "ok", meta |-> m, times |-> TimesOf(m), content |-> b] :
     m \in MetaContents, b \in BodyTexts}

\* driver.get raises
FailingPage == [EmptyPage EXCEPT !.get = "WebDriverException"]

\* Article(title, url, snippet) after __post_init__, which leaves none of
\* industries, countries and country_mentions unset, with the page its url
\* leads to and the call of the analysis that raises for it, if one does
NewArticle(title, article_url, snippet, article_page, fault) ==
  [title |-> title, url |-> article_url, snippet |-> snippet, date |-> None,
   full_content |-> None, industries |-> << >>, countries |-> << >>,
   country_mentions |-> EmptyDict, attack_method |-> "None", unset |-> {},
   page |-> article_page, fault |-> fault]

MaxArticles == 2

\* an article with a page of four lines; one whose url is None; one of an
\* excluded domain whose country count raises; one whose page fails to load
\* and whose industry search raises; one with an empty page whose attack
\* method raises; one with a dated page
BatchArticles ==
  {NewArticle(<<"s","c","a","d","a"," ","a","t","t","a","c","k">>, PlainUrl, <<"i","n"," ","u","k","r","a","i","n","e">>,
              [EmptyPage EXCEPT !.content = <<"g","r","u"," ","h","i","t"," ","p","o","l","a","n","d"," ","\n","h","o","s","p","i","t","a","l"," ","r","a","n","s","o","m","w","a","r","e","\n","s","e","e"," ","h","t","t","p",":","/","/","x",".","e","x","a","m","p","l","e","\n","f","o","o","t","e","r"," ","u","k">>], "no"),
   NewArticle(<<"s","c","a","d","a"," ","a","t","t","a","c","k">>, None, <<"i","n"," ","u","k","r","a","i","n","e">>, EmptyPage, "no"),
   NewArticle(<<"m","i","l","i","t","i","a">>, ExcludedUrl, <<"u","k">>, EmptyPage, "countries"),
   NewArticle(<<"g","a","n","g","s">>, PlainUrl, << >>, FailingPage, "industries"),
   NewArticle(<<"h","o","s","p","i","t","a","l">>, PlainUrl, <<"r","u","s","s","i","a","n">>, EmptyPage, "attack"),
   NewArticle(<<"n">>, PlainUrl, <<"n">>,
              [EmptyPage EXCEPT !.content = <<"P","u","b","l","i","s","h","e","d",":"," ","J","a","n"," ","1","5",","," ","2","0","2","1","\n","b","o","d","y">>], "no")}

\* ------------------------------------------------------------------------
\* State
\* ------------------------------------------------------------------------

VARIABLES
  pc,                \* the call that comes next
  text,              \* the text handed to the classifiers
  set_order,         \* iteration order of the set COUNTRY_KEYWORDS in this process
  industries,        \* article.industries
  countries,         \* article.countries
  country_mentions,  \* article.country_mentions
  direct_score,      \* local of _determine_attack_method
  proxy_score,       \* local of _determine_attack_method
  attack_method,     \* article.attack_method
  found_countries,   \* result of _extract_countries
  country,           \* argument of _normalize_country_name
  normalized,        \* result of _normalize_country_name
  date_text,         \* argument of _parse_google_date and _parse_date
  now,               \* datetime.now()
  fuzzy,             \* outcome of the dateutil try block of _parse_date
  date,              \* the date returned, or None
  via,               \* the strategy that returned it
  raised,            \* the exception that escaped the call, or "no"
  reparsed,          \* what _parse_date returns for the date returned before
  url,               \* article.url
  page,              \* the page the driver shows for article.url
  full_content,      \* article.full_content
  calls,             \* the date functions fetch_article_content called
  caught,            \* the exception an except clause caught, or "no"
  articles,          \* self.articles
  idx,               \* position of the for loop in self.articles
  file,              \* data['articles'] of the file save_results wrote
  max_results,       \* argument of search_google
  search_page,       \* the loop variable page of search_google
  collected,         \* the local list articles of search_google
  pages_loaded,      \* the number of result pages driver.get was called for
  last,              \* what the page loaded last gave
  order_texts,       \* the texts of the articles the classifiers are called for
  outputs            \* the result of each classifier call made so far

classify_vars == <<text, set_order, industries, countries, country_mentions, direct_score,
                   proxy_score, attack_method, found_countries, country, normalized>>
date_vars == <<date_text, now, fuzzy, year_width, date, via, raised, reparsed>>
date_rest == <<date_text, now, fuzzy, year_width, date, via, reparsed>>
fetch_vars == <<url, page, full_content, calls, caught>>
batch_vars == <<articles, idx, file>>
search_vars == <<max_results, search_page, collected, pages_loaded, last>>
order_vars == <<order_texts, outputs>>
vars == <<pc, classify_vars, date_vars, fetch_vars, batch_vars, search_vars, order_vars>>

InitResults ==
  /\ industries = << >>
  /\ countries = << >>
  /\ country_mentions = EmptyDict
  /\ direct_score = 0
  /\ proxy_score = 0
  /\ attack_method = "None"
  /\ found_countries = << >>
  /\ normalized = << >>
  /\ date = None
  /\ via = "none"
  /\ raised = "no"
  /\ reparsed = None
  /\ full_content = None
  /\ calls = {}
  /\ caught = "no"

FirstNow == CHOOSE n \in Nows : \A o \in Nows : ToOrdinal(n) <= ToOrdinal(o)

NoDateInput ==
  /\ date_text = << >>
  /\ now = FirstNow
  /\ fuzzy = Raised("ImportError")
  /\ year_width = 4

NoTextInput ==
  /\ text = << >>
  /\ set_order = CountryLiteralOrder
  /\ country = << >>

NoPageInput ==
  /\ url = << >>
  /\ page = EmptyPage

NoPage == [error |-> FALSE, urls |-> << >>]

NoSearch ==
  /\ max_results = 0
  /\ search_page = 0
  /\ collected = << >>
  /\ pages_loaded = 0
  /\ last = NoPage

NoCalls ==
  /\ order_texts = << >>
  /\ outputs = << >>

NoArticles ==
  /\ articles = << >>
  /\ idx = 0
  /\ file = << >>
  /\ NoSearch
  /\ NoCalls

\* the classifiers: a text or a country name is given
Init ==
  /\ InitResults
  /\ NoDateInput
  /\ NoPageInput
  /\ NoArticles
  /\ set_order \in SetOrders
  /\ \/ pc = "analyze" /\ text \in Texts /\ country = << >>
     \/ pc = "normalize" /\ text = << >> /\ country \in CountryInputs

\* analyze_articles: article.industries = self._extract_industries(text)
\* if keyword.lower() in text: TypeError for a text that is None
ExtractIndustries ==
  /\ pc = "analyze"
  /\ IF text = None
     THEN industries' = industries /\ raised' = "TypeError" /\ pc' = "raised"
     ELSE industries' = extract_industries(text) /\ raised' = raised /\ pc' = "countries"
  /\ UNCHANGED <<text, set_order, countries, country_mentions, direct_score, proxy_score,
                 attack_method, found_countries, country, normalized, date_rest, fetch_vars,
                 batch_vars, search_vars, order_vars>>

\* analyze_articles: article.countries, article.country_mentions =
\* self._extract_countries_with_counts(text)
\* text_lower = text.lower(): AttributeError for a text that is None
ExtractCountriesWithCounts ==
  /\ pc = "countries"
  /\ IF text = None
     THEN /\ countries' = countries /\ country_mentions' = country_mentions
          /\ raised' = "AttributeError" /\ pc' = "raised"
     ELSE /\ LET r == extract_countries_with_counts(text, set_order)
             IN  countries' = r.found /\ country_mentions' = r.mentions
          /\ raised' = raised /\ pc' = "attack"
  /\ UNCHANGED <<text, set_order, industries, direct_score, proxy_score, attack_method,
                 found_countries, country, normalized, date_rest, fetch_vars, batch_vars, search_vars, order_vars>>

\* analyze_articles: article.attack_method = self._determine_attack_method(text)
\* text_lower = text.lower(): AttributeError for a text that is None
DetermineAttackMethod ==
  /\ pc = "attack"
  /\ IF text = None
     THEN /\ direct_score' = direct_score /\ proxy_score' = proxy_score
          /\ attack_method' = attack_method
          /\ raised' = "AttributeError" /\ pc' = "raised"
     ELSE /\ direct_score' = direct_score_of(text)
          /\ proxy_score' = proxy_score_of(text)
          /\ attack_method' = determine_attack_method(text)
          /\ raised' = raised /\ pc' = "analyzed"
  /\ UNCHANGED <<text, set_order, industries, countries, country_mentions,
                 found_countries, country, normalized, date_rest, fetch_vars, batch_vars, search_vars, order_vars>>

\* a call of _extract_countries(text)
\* text_lower = text.lower(): AttributeError for a text that is None
ExtractCountries ==
  /\ pc = "analyze"
  /\ IF text = None
     THEN found_countries' = found_countries /\ raised' = "AttributeError" /\ pc' = "raised"
     ELSE found_countries' = extract_countries(text, set_order) /\ raised' = raised
          /\ pc' = "listed"
  /\ UNCHANGED <<text, set_order, industries, countries, country_mentions, direct_score,
                 proxy_score, attack_method, country, normalized, date_rest, fetch_vars,
                 batch_vars, search_vars, order_vars>>

\* a call of _normalize_country_name(country)
NormalizeCountryName ==
  /\ pc = "normalize"
  /\ normalized' = normalize_country_name(country)
  /\ pc' = "normalized"
  /\ UNCHANGED <<text, set_order, industries, countries, country_mentions, direct_score,
                 proxy_score, attack_method, found_countries, country, date_vars, fetch_vars, batch_vars, search_vars, order_vars>>

Next ==
  \/ ExtractIndustries
  \/ ExtractCountriesWithCounts
  \/ DetermineAttackMethod
  \/ ExtractCountries
  \/ NormalizeCountryName

Spec == Init /\ [][Next]_vars

\* the classifiers called on their own, with a text or with None for the text
InitNoText ==
  /\ InitResults
  /\ NoDateInput
  /\ NoPageInput
  /\ NoArticles
  /\ set_order \in SetOrders
  /\ pc \in {"analyze", "countries", "attack"}
  /\ text \in Texts \cup {None}
  /\ country = << >>

NextNoText ==
  \/ ExtractIndustries
  \/ ExtractCountriesWithCounts
  \/ DetermineAttackMethod
  \/ ExtractCountries

SpecNoText == InitNoText /\ [][NextNoText]_vars

\* the date functions: a date text is given; the reference instant and the
\* platform's strftime matter to the relative phrases only
InitDate ==
  /\ InitResults
  /\ NoTextInput
  /\ NoPageInput
  /\ NoArticles
  /\ pc = "date"
  /\ date_text \in DateTexts
  /\ now \in Nows
  /\ year_width \in {1, 4}
  /\ (date_text \notin RelativeTexts \cup MixedTexts \cup OtherDateTexts
        => now = FirstNow /\ year_width = 4)
  /\ fuzzy \in FuzzyOutcomes(date_text)

\* a call of _parse_google_date(date_text), as _extract_search_results makes it
ParseGoogleDate ==
  /\ pc = "date"
  /\ LET r == parse_google_date(date_text, now, fuzzy)
     IN  date' = r.date /\ via' = r.via /\ raised' = r.raised
  /\ pc' = "google_parsed"
  /\ UNCHANGED <<classify_vars, fetch_vars, batch_vars, search_vars, order_vars, date_text, now, fuzzy, year_width, reparsed>>

\* a call of _parse_date(date_text), as _extract_date_from_meta makes it
ParseDate ==
  /\ pc = "date"
  /\ LET r == parse_date(date_text, fuzzy)
     IN  date' = r.date /\ via' = r.via /\ raised' = r.raised
  /\ pc' = "parsed"
  /\ UNCHANGED <<classify_vars, fetch_vars, batch_vars, search_vars, order_vars, date_text, now, fuzzy, year_width, reparsed>>

\* the outcome of the dateutil try block when the date returned is parsed
\* again in the same process: the import fails again, or the parser, being
\* there, returns the date the ISO text names
ReparseOutcome ==
  IF fuzzy.raised = "ImportError" THEN fuzzy
  ELSE CHOOSE o \in FuzzyOutcomes(date) : o.raised = "no"

\* a second call, _parse_date(date), on the date a first call returned
Reparse ==
  /\ pc \in {"google_parsed", "parsed"}
  /\ date # None
  /\ LET r == parse_date(date, ReparseOutcome)
     IN  reparsed' = r.date /\ raised' = r.raised
  /\ pc' = "reparsed"
  /\ UNCHANGED <<classify_vars, fetch_vars, batch_vars, search_vars, order_vars, date_text, now, fuzzy, year_width, date, via>>

NextDate ==
  \/ ParseGoogleDate
  \/ ParseDate
  \/ Reparse

SpecDate == InitDate /\ [][NextDate]_vars

\* the date functions in a process where dateutil is not installed
InitDateNoDateutil == InitDate /\ fuzzy = Raised("ImportError")

SpecDateNoDateutil == InitDateNoDateutil /\ [][NextDate]_vars

\* the index page, then the page of the article: a result of the index page
\* and the page its url leads to, in a process where dateutil is or is not
\* installed
InitFetch ==
  /\ InitResults
  /\ NoTextInput
  /\ NoArticles
  /\ pc = "index"
  /\ date_text \in IndexTexts
  /\ now = FirstNow
  /\ year_width = 4
  /\ fuzzy \in FuzzyOutcomes(date_text)
  /\ \/ url = PlainUrl /\ page \in Pages \cup {FailingPage}
     \/ url \in {ExcludedUrl, None} /\ page = EmptyPage

Installed == fuzzy.raised # "ImportError"

\* _extract_search_results: if date_text: date = self._parse_google_date(date_text)
\* inside try ... except Exception: pass, then Article(..., date=date)
ExtractSearchResult ==
  /\ pc = "index"
  /\ \E r \in {parse_google_date(date_text, now, fuzzy)} :
       IF date_text = << >> THEN date' = None /\ via' = "none" /\ caught' = "no"
       ELSE IF r.raised # "no" THEN date' = None /\ via' = "none" /\ caught' = r.raised
       ELSE date' = r.date /\ via' = r.via /\ caught' = "no"
  /\ pc' = "fetch"
  /\ UNCHANGED <<classify_vars, batch_vars, search_vars, order_vars, date_text, now, fuzzy, year_width, raised, reparsed,
                 url, page, full_content, calls>>

\* a call of fetch_article_content(article)
FetchArticleContent ==
  /\ pc = "fetch"
  /\ \E r \in {fetch_article_content(date, url, page, Installed)} :
       /\ date' = r.date
       /\ via' = IF r.source # "none" THEN r.source ELSE via
       /\ full_content' = r.returned
       /\ calls' = r.calls
       /\ caught' = r.caught
       /\ raised' = r.raised
  /\ pc' = "fetched"
  /\ UNCHANGED <<classify_vars, batch_vars, search_vars, order_vars, date_text, now, fuzzy, year_width, reparsed, url, page>>

NextFetch ==
  \/ ExtractSearchResult
  \/ FetchArticleContent

SpecFetch == InitFetch /\ [][NextFetch]_vars

\* main: scraper.fetch_all_article_contents(), then scraper.analyze_articles(),
\* on a list of articles
InitBatch ==
  /\ InitResults
  /\ NoTextInput
  /\ NoDateInput
  /\ NoPageInput
  /\ NoSearch
  /\ NoCalls
  /\ pc = "fetch_all"
  /\ articles \in UNION {[1..n -> BatchArticles] : n \in 1..MaxArticles}
  /\ idx = 1
  /\ file = << >>

\* one turn of the loop of fetch_all_article_contents:
\* try: article.full_content = self.fetch_article_content(article)
\* except Exception: article.full_content = ""; continue
FetchNextArticle ==
  /\ pc = "fetch_all"
  /\ \E a \in {articles[idx]} :
       \E r \in {fetch_article_content(a.date, a.url, a.page, Installed)} :
         LET next == IF r.raised # "no" THEN next_after_error(idx, Len(articles)) ELSE idx + 1
         IN  /\ articles' = [articles EXCEPT ![idx] =
                               IF r.raised # "no" THEN [a EXCEPT !.full_content = << >>]
                               ELSE [a EXCEPT !.date = r.date, !.full_content = r.returned]]
             /\ IF next > Len(articles) THEN pc' = "analyze_all" /\ idx' = 1
                ELSE pc' = pc /\ idx' = next
  /\ UNCHANGED <<classify_vars, date_vars, fetch_vars, file, search_vars, order_vars>>

\* one turn of the loop of analyze_articles: the three assignments in their
\* order up to the call that raises, then the except clause
AnalyzeNextArticle ==
  /\ pc = "analyze_all"
  /\ \E a \in {articles[idx]} :
       \E t \in {analysis_text(a.title, a.snippet, a.full_content)} :
         \E counted \in {extract_countries_with_counts(t, set_order)} :
           \E a1 \in {[a EXCEPT !.industries = extract_industries(t),
                                !.unset = @ \ {"industries"}]} :
             LET a2 == [a1 EXCEPT !.countries = counted.found,
                                  !.country_mentions = counted.mentions,
                                  !.unset = @ \ {"countries", "country_mentions"}]
                 a3 == [a2 EXCEPT !.attack_method = determine_attack_method(t)]
                 next == IF a.fault # "no" THEN next_after_error(idx, Len(articles))
                         ELSE idx + 1
             IN  /\ articles' = [articles EXCEPT ![idx] =
                                   CASE a.fault = "industries" -> with_defaults(a)
                                     [] a.fault = "countries" -> with_defaults(a1)
                                     [] a.fault = "attack" -> with_defaults(a2)
                                     [] OTHER -> a3]
                 /\ IF next > Len(articles) THEN pc' = "batch_done" /\ idx' = 1
                    ELSE pc' = pc /\ idx' = next
  /\ UNCHANGED <<classify_vars, date_vars, fetch_vars, file, search_vars, order_vars>>

\* asdict(article): the nine fields of the dataclass.  json.dump and
\* json.load give back a str, a list, a dict with str keys, an int and None
\* as they were written
asdict(a) ==
  [title |-> a.title, url |-> a.url, snippet |-> a.snippet, date |-> a.date,
   full_content |-> a.full_content, industries |-> a.industries, countries |-> a.countries,
   country_mentions |-> a.country_mentions, attack_method |-> a.attack_method]

\* Article(**d): the generated __init__ assigns the nine fields, then
\* __post_init__ assigns [] to industries and countries and {} to
\* country_mentions; the page the url leads to is not part of the object
ArticleFromDict(d, a) ==
  [title |-> d.title, url |-> d.url, snippet |-> d.snippet, date |-> d.date,
   full_content |-> d.full_content, industries |-> << >>, countries |-> << >>,
   country_mentions |-> EmptyDict, attack_method |-> d.attack_method, unset |-> {},
   page |-> a.page, fault |-> a.fault]

\* save_results: 'articles': [asdict(article) for article in self.articles]
SaveResults ==
  /\ pc = "batch_done"
  /\ file' = [i \in DOMAIN articles |-> asdict(articles[i])]
  /\ pc' = "saved"
  /\ UNCHANGED <<classify_vars, date_vars, fetch_vars, articles, idx, search_vars, order_vars>>

\* load_results: self.articles = [Article(**article) for article in data['articles']]
LoadResults ==
  /\ pc = "saved"
  /\ articles' = [i \in DOMAIN file |-> ArticleFromDict(file[i], articles[i])]
  /\ pc' = "loaded"
  /\ UNCHANGED <<classify_vars, date_vars, fetch_vars, idx, file, search_vars, order_vars>>

NextBatch ==
  \/ FetchNextArticle
  \/ AnalyzeNextArticle
  \/ SaveResults
  \/ LoadResults

SpecBatch == InitBatch /\ [][NextBatch]_vars

\* ------------------------------------------------------------------------
\* Notions the properties are stated with
\* ------------------------------------------------------------------------

\* tok occurs in s at position i as a word of its own: the characters next
\* to the occurrence, if any, are not word characters
IsOccurrence(s, tok, i) ==
  /\ i >= 1
  /\ i + Len(tok) - 1 <= Len(s)
  /\ SubSeq(s, i, i + Len(tok) - 1) = tok
  /\ (i = 1 \/ s[i - 1] \notin WordSet)
  /\ (i + Len(tok) > Len(s) \/ s[i + Len(tok)] \notin WordSet)

\* tok occurs in s at position i inside a longer word
IsEmbedded(s, tok, i) ==
  /\ i >= 1
  /\ i + Len(tok) - 1 <= Len(s)
  /\ SubSeq(s, i, i + Len(tok) - 1) = tok
  /\ \/ (i > 1 /\ s[i - 1] \in WordSet)
     \/ (i + Len(tok) <= Len(s) /\ s[i + Len(tok)] \in WordSet)

Occurrences(s, tok) == Cardinality({i \in 1..Len(s) : IsOccurrence(s, tok, i)})

CanonicalOf == [tok \in COUNTRY_KEYWORDS |-> normalize_country_name(tok)]
CanonicalNames == {CanonicalOf[tok] : tok \in COUNTRY_KEYWORDS}
TokensOf == [c \in CanonicalNames |-> {tok \in COUNTRY_KEYWORDS : CanonicalOf[tok] = c}]

RECURSIVE SumOccurrences(_, _)
SumOccurrences(s, toks) ==
  IF toks = {} THEN 0
  ELSE LET tok == CHOOSE t \in toks : TRUE
       IN  Occurrences(s, tok) + SumOccurrences(s, toks \ {tok})

\* the occurrences in s of all the tokens that normalize to c
MentionsOf(s, c) == IF c \in CanonicalNames THEN SumOccurrences(s, TokensOf[c]) ELSE 0

IsLowerCased(s) == \A i \in DOMAIN s : s[i] \notin UpperSet

CountIn(seq, x) == Cardinality({i \in DOMAIN seq : seq[i] = x})

\* keyword occurs in s as a substring, letter case ignored
ContainsIgnoringCase(s, keyword) ==
  \E i \in 0..(Len(s) - Len(keyword)) :
    \A j \in 1..Len(keyword) : LowerChar(s[i + j]) = LowerChar(keyword[j])

KeywordsPresent(s, n) ==
  {k \in DOMAIN INDUSTRY_KEYWORDS[n].keywords :
     ContainsIgnoringCase(s, INDUSTRY_KEYWORDS[n].keywords[k])}

TermsPresent(s, terms) == Cardinality({k \in DOMAIN terms : Contains(s, terms[k])})

IndustriesDone == pc \in {"countries", "attack", "analyzed"}
CountriesDone == pc \in {"attack", "analyzed"}

\* ------------------------------------------------------------------------
\* Properties
\* ------------------------------------------------------------------------

\* C1: whenever the token handed to _normalize_country_name is itself a key
\* of the normalization table, the result is that key's value, even if
\* another key is a substring of the token.
C1_ExactLookupFirst ==
  pc = "normalized" =>
    \A i \in DOMAIN mapping :
      mapping[i].key = Lower(country) => normalized = mapping[i].value

\* C2: for a lower-cased text, country_mentions[c] is the sum, over the
\* registry tokens that normalize to c, of the token's word-bounded
\* occurrences in the text, and c is absent when that sum is 0.
C2_MentionsAreOccurrenceSums ==
  (CountriesDone /\ IsLowerCased(text)) =>
    /\ DOMAIN country_mentions \subseteq CanonicalNames
    /\ \A c \in CanonicalNames :
         LET total == MentionsOf(text, c)
         IN  IF total = 0 THEN c \notin DOMAIN country_mentions
             ELSE c \in DOMAIN country_mentions /\ country_mentions[c] = total

\* a text in which two different tokens of one country occur, counted together
C2_Witness ==
  /\ CountriesDone
  /\ IsLowerCased(text)
  /\ \E c \in DOMAIN country_mentions :
       /\ country_mentions[c] >= 2
       /\ Cardinality({tok \in TokensOf[c] : Occurrences(text, tok) > 0}) >= 2

\* C7: for a lower-cased text, an industry's label is in the result of
\* _extract_industries exactly once if the text contains one or more of the
\* industry's keywords (letter case ignored, plain substring), and is absent
\* if it contains none.
C7_IndustryOnceIffKeyword ==
  (IndustriesDone /\ IsLowerCased(text)) =>
    \A n \in DOMAIN INDUSTRY_KEYWORDS :
      CountIn(industries, INDUSTRY_KEYWORDS[n].industry)
        = IF KeywordsPresent(text, n) # {} THEN 1 ELSE 0

\* a text with several keywords of one industry, one of them upper-case in
\* the taxonomy, and an industry with no keyword in the text
C7_Witness ==
  /\ IndustriesDone
  /\ IsLowerCased(text)
  /\ \E n \in DOMAIN INDUSTRY_KEYWORDS :
       /\ Cardinality(KeywordsPresent(text, n)) >= 2
       /\ CountIn(industries, INDUSTRY_KEYWORDS[n].industry) = 1
  /\ \E n \in DOMAIN INDUSTRY_KEYWORDS :
       /\ \E k \in KeywordsPresent(text, n) :
            ~IsLowerCased(INDUSTRY_KEYWORDS[n].keywords[k])
       /\ CountIn(industries, INDUSTRY_KEYWORDS[n].industry) = 1
  /\ \E n \in DOMAIN INDUSTRY_KEYWORDS :
       CountIn(industries, INDUSTRY_KEYWORDS[n].industry) = 0

\* C8: an occurrence of a registry token inside a longer word is neither
\* reported nor counted: every country reported by _extract_countries or
\* _extract_countries_with_counts has a token standing as a word of its own
\* in the text, and no country is counted more often than its tokens so
\* occur; a text with no such occurrence yields nothing.
C8_WordBoundaries ==
  /\ CountriesDone =>
       /\ \A c \in Range(countries) : MentionsOf(Lower(text), c) > 0
       /\ \A c \in DOMAIN country_mentions :
            country_mentions[c] <= MentionsOf(Lower(text), c)
  /\ pc = "listed" =>
       \A c \in Range(found_countries) : MentionsOf(Lower(text), c) > 0

\* a text with a registry token inside a longer word and none on its own
C8_Witness ==
  /\ CountriesDone
  /\ \E tok \in COUNTRY_KEYWORDS : \E i \in 1..Len(text) : IsEmbedded(Lower(text), tok, i)
  /\ \A tok \in COUNTRY_KEYWORDS : Occurrences(Lower(text), tok) = 0
  /\ countries = << >>
  /\ DOMAIN country_mentions = {}

\* C9: countries has no duplicates, the keys of country_mentions are the
\* names in countries, and every count is at least 1.
C9_CountriesAndMentionsAgree ==
  CountriesDone =>
    /\ \A i, j \in DOMAIN countries : countries[i] = countries[j] => i = j
    /\ DOMAIN country_mentions = Range(countries)
    /\ \A c \in DOMAIN country_mentions : country_mentions[c] >= 1

\* a text in which two tokens of one country and a second country are found
C9_Witness ==
  /\ CountriesDone
  /\ Len(countries) >= 2
  /\ \E c \in Range(countries) :
       Cardinality({tok \in TokensOf[c] : Occurrences(Lower(text), tok) > 0}) >= 2

\* C10: the verdict is 'direct' exactly when more state-actor terms than
\* proxy terms occur in the text, 'proxy' exactly when more proxy terms
\* occur, 'unknown' exactly on a tie; there is no other verdict.
C10_VerdictFollowsScores ==
  pc = "analyzed" =>
    /\ direct_score = TermsPresent(Lower(text), SECURITY_SERVICES_direct)
    /\ proxy_score = TermsPresent(Lower(text), SECURITY_SERVICES_proxy)
    /\ attack_method \in {"direct", "proxy", "unknown"}
    /\ attack_method = "direct" <=> direct_score > proxy_score
    /\ attack_method = "proxy" <=> proxy_score > direct_score
    /\ attack_method = "unknown" <=> direct_score = proxy_score

\* a tie between non-zero scores
C10_Witness ==
  /\ pc = "analyzed"
  /\ direct_score = proxy_score
  /\ direct_score >= 1
  /\ attack_method = "unknown"

\* ------------------------------------------------------------------------
\* Notions the date properties are stated with
\* ------------------------------------------------------------------------

DateDone == pc \in {"google_parsed", "parsed"} /\ raised = "no"

\* the pattern table ran: no relative phrase and no fuzzy result came first
TableRan == DateDone /\ date_text # << >> /\ via \notin {"relative", "fuzzy"}

\* the text the pattern table was given
TableInput == IF pc = "parsed" THEN Strip(date_text) ELSE Lower(Strip(date_text))

TwoDigits(n) == <<DigitChars[(n \div 10) + 1], DigitChars[(n % 10) + 1]>>

YearOf(str) == ToInt(SubSeq(str, 1, 4))
MonthOf(str) == ToInt(SubSeq(str, 6, 7))
DayOf(str) == ToInt(SubSeq(str, 9, 10))

\* str is YYYY-MM-DD and names a day of the calendar
IsCalendarDate(str) ==
  /\ Len(str) = 10
  /\ \A i \in 1..10 : IF i \in {5, 8} THEN str[i] = "-" ELSE str[i] \in DigitSet
  /\ YearOf(str) >= 1
  /\ MonthOf(str) \in 1..12
  /\ DayOf(str) \in 1..DaysInMonth(YearOf(str), MonthOf(str))

InWindow(str) == YearOf(str) >= MinYear /\ YearOf(str) <= MaxYear

PatternMatches(t, k) == Search(t, patterns[k].regex) # NoMatch

\* the date pattern k gives for t: what its formatter makes of its match,
\* if that is a calendar date inside the window
CandidateOf(t, k) ==
  IF ~PatternMatches(t, k) THEN None
  ELSE LET r == Formatter(k, Groups(t, k, Search(t, patterns[k].regex)))
       IN  IF r # None /\ IsCalendarDate(r) /\ InWindow(r) THEN r ELSE None

MatchingPatterns(t) == {k \in DOMAIN patterns : PatternMatches(t, k)}
GoodPatterns(t) == {k \in DOMAIN patterns : CandidateOf(t, k) # None}

\* date_text is A/B/YYYY
IsSlashText(a, b, y) == date_text = a \o Slash \o b \o Slash \o y

YearInWindow(y) == ToInt(y) >= MinYear /\ ToInt(y) <= MaxYear

\* ------------------------------------------------------------------------
\* Date properties
\* ------------------------------------------------------------------------

\* C3: every date a date strategy returns has passed the validation gate: it
\* is a real calendar date with its year in [2000, 2030].
C3_EveryDateValidated ==
  (DateDone /\ date # None) => (IsCalendarDate(date) /\ InWindow(date))

\* C4 as claimed: the first pattern of the table that matches the text
\* decides: the result is that pattern's validated date or unset.
C4_FirstStructuralMatchWins ==
  TableRan =>
    date = IF MatchingPatterns(TableInput) = {} THEN None
           ELSE CandidateOf(TableInput, SetMin(MatchingPatterns(TableInput)))

\* C4 as amended: the patterns are tried in the order a-f and the first
\* pattern that matches and yields a validated date wins; a pattern that
\* matches without yielding one is passed over; unset if there is none.
C4_FirstValidatedMatchWins ==
  TableRan =>
    IF GoodPatterns(TableInput) = {} THEN date = None /\ via = "none"
    ELSE LET k == SetMin(GoodPatterns(TableInput))
         IN  date = CandidateOf(TableInput, k) /\ via = patterns[k].name

\* the first pattern that matches ('DD Month YYYY') yields no calendar date
\* and a later one ('Month YYYY') supplies the result
C4_Witness ==
  /\ TableRan
  /\ MatchingPatterns(TableInput) # {}
  /\ patterns[SetMin(MatchingPatterns(TableInput))].name = "b"
  /\ CandidateOf(TableInput, SetMin(MatchingPatterns(TableInput))) = None
  /\ via = "f"
  /\ date # None

\* C5 as claimed: in A/B/YYYY with A and B both at most 12, A is the day and
\* B the month: the result is YYYY-BB-AA.
C5_AmbiguousDayFirst ==
  \A a \in NumStrs, b \in NumStrs, y \in YearStrs :
    (DateDone /\ IsSlashText(a, b, y) /\ YearInWindow(y)
       /\ ToInt(a) \in 1..12 /\ ToInt(b) \in 1..12)
    => date = y \o Dash \o TwoDigits(ToInt(b)) \o Dash \o TwoDigits(ToInt(a))

\* C5 as amended: in A/B/YYYY with A and B both in 1..12 and the year in
\* [2000, 2030], A is the month and B the day: the result is YYYY-AA-BB.
C5_AmbiguousMonthFirst ==
  \A a \in NumStrs, b \in NumStrs, y \in YearStrs :
    (DateDone /\ IsSlashText(a, b, y) /\ YearInWindow(y)
       /\ ToInt(a) \in 1..12 /\ ToInt(b) \in 1..12)
    => /\ date = y \o Dash \o TwoDigits(ToInt(a)) \o Dash \o TwoDigits(ToInt(b))
       /\ MonthOf(date) = ToInt(a)
       /\ DayOf(date) = ToInt(b)

\* an ambiguous text whose two numbers differ
C5_Witness ==
  \E a \in NumStrs, b \in NumStrs, y \in YearStrs :
    /\ DateDone /\ IsSlashText(a, b, y)
    /\ ToInt(a) \in 1..12 /\ ToInt(b) \in 1..12 /\ ToInt(a) # ToInt(b)
    /\ date # None
    /\ MonthOf(date) = ToInt(a)

GoogleDone == pc = "google_parsed" /\ raised = "no"

RelativeText(n, u) == n \o Sp \o u \o Sp \o <<"a", "g", "o">>

\* the days one unit of a relative phrase is claimed to stand for
ClaimedDaysPer(u) ==
  CASE u \in {<<"d","a","y">>, <<"d","a","y","s">>} -> 1
    [] u \in {<<"w","e","e","k">>, <<"w","e","e","k","s">>} -> 7
    [] u \in {<<"m","o","n","t","h">>, <<"m","o","n","t","h","s">>} -> 30
    [] u \in {<<"y","e","a","r">>, <<"y","e","a","r","s">>} -> 365

\* the day number of the day N units before the reference day, counting
\* 0001-01-01 as day 1; 0 when the calendar has no such day
ClaimedDay(n, u) ==
  IF Len(n) > 9 THEN 0
  ELSE IF ToInt(n) > (ToOrdinal(now) - 1) \div ClaimedDaysPer(u) THEN 0
  ELSE ToOrdinal(now) - ToInt(n) * ClaimedDaysPer(u)

DateOf(str) == [year |-> YearOf(str), month |-> MonthOf(str), day |-> DayOf(str)]

\* date is the canonical text of the day with number n
IsDay(n) == n >= 1 /\ date # None /\ IsCalendarDate(date) /\ ToOrdinal(DateOf(date)) = n

\* day number of the first day of year 1000
FirstFourDigitDay == DaysBeforeYear(1000) + 1

Words == MonthStrs \cup MonthWords \cup {<<"J","a","n">>, <<"M","a","r","c","h">>}
Days == NumStrs \cup {<<"5">>, <<"1","5">>, <<"1","6">>}
MonthNumbers == MonthNumStrs \cup {<<"1">>}
Years == YearStrs \cup {<<"2","0","2","0">>, <<"2","0","2","4">>}

\* the number of the month a word names: the words of the months table,
\* in any letter case
MonthNumberOf(w) ==
  IF \E i \in DOMAIN months : months[i].key = Lower(w)
  THEN ToInt(months[CHOOSE i \in DOMAIN months : months[i].key = Lower(w)].value)
  ELSE 0

\* year y, month mo and day d form a real calendar date inside [2000, 2030]
IsRealDate(y, mo, d) ==
  /\ y >= MinYear /\ y <= MaxYear
  /\ mo \in 1..12
  /\ d >= 1 /\ d <= DaysInMonth(y, mo)

Canonical(y, mo, d) == y \o Dash \o TwoDigits(mo) \o Dash \o TwoDigits(d)

\* the texts 'Month D, Y', 'Month D Y', 'D Month Y', 'Y-M-D', 'Y/M/D' and
\* 'Y.M.D' of real calendar dates, each with the date it is claimed to give
ClaimedDates ==
  UNION {{<<w \o Sp \o d \o <<",">> \o Sp \o y, Canonical(y, MonthNumberOf(w), ToInt(d))>>,
          <<w \o Sp \o d \o Sp \o y, Canonical(y, MonthNumberOf(w), ToInt(d))>>,
          <<d \o Sp \o w \o Sp \o y, Canonical(y, MonthNumberOf(w), ToInt(d))>>} :
           <<w, d, y>> \in {c \in Words \X Days \X Years :
                              IsRealDate(ToInt(c[3]), MonthNumberOf(c[1]), ToInt(c[2]))}}
  \cup
  {<<y \o sep \o mo \o sep \o d, Canonical(y, ToInt(mo), ToInt(d))>> :
     <<y, mo, d, sep>> \in {c \in Years \X MonthNumbers \X Days \X {Dash, Slash, Dot} :
                              IsRealDate(ToInt(c[1]), ToInt(c[2]), ToInt(c[3]))}}

\* C12: for every month name or abbreviation of the month table in any
\* letter case, day D and year Y forming a real calendar date with Y in
\* [2000, 2030], 'Month D, Y', 'Month D Y' and 'D Month Y' normalize to
\* Y-MM-DD, and so do 'Y-M-D', 'Y/M/D' and 'Y.M.D', month and day padded to
\* two digits.
C12_AbsoluteFormsNormalize ==
  DateDone => \A c \in ClaimedDates : date_text = c[1] => date = c[2]

\* a capitalized abbreviation with a one-digit day, and a numeric text with
\* a one-digit month
C12_Witness ==
  /\ DateDone
  /\ \/ date_text = <<"F","e","b"," ","2",","," ","2","0","2","3">>
        /\ date = <<"2","0","2","3","-","0","2","-","0","2">>
     \/ date_text = <<"2","0","2","3",".","2",".","1","2">>
        /\ date = <<"2","0","2","3","-","0","2","-","1","2">>
  /\ \E c \in ClaimedDates : date_text = c[1]

\* C13: the canonical format is a fixed point: every canonical YYYY-MM-DD
\* string the date functions return is returned unchanged when it is parsed
\* again.
C13_CanonicalIsFixedPoint ==
  (pc = "reparsed" /\ IsCalendarDate(date)) => (raised = "no" /\ reparsed = date)

\* ------------------------------------------------------------------------
\* Dates of a page
\* ------------------------------------------------------------------------

FetchDone == pc = "fetched"

\* the page was loaded: the url is a string of no excluded domain and
\* driver.get returned
Loaded == url # None /\ ~IsExcluded(Lower(url)) /\ page.get = "ok"

\* the body-text scan ran and came back
Scanned == FetchDone /\ "text" \in calls /\ caught = "no"

\* what each of the three sources yields for the article
IndexDate ==
  LET r == parse_google_date(date_text, now, fuzzy)
  IN  IF date_text = << >> \/ r.raised # "no" THEN None ELSE r.date

MetaDate == extract_date_from_meta(page, Installed)

BodyDate == extract_date_from_text(page.content, Installed).date

\* the dates the first MaxCandidates date-shaped candidates of the first
\* FirstPart characters name
CandidateDates(body) ==
  LET candidates == FindCandidates(first_part(body), 1, MaxCandidates)
  IN  {parse_date(candidates[i], FuzzyOutcomeOf(candidates[i], Installed)).date :
         i \in DOMAIN candidates} \ {None}

\* C14: a date of the body text that no label precedes is returned only if
\* it is among the first 5 date-shaped candidates of the first 1000
\* characters and its year lies in [2020, 2026]
C14_UnlabelledOnlyInStrictWindow ==
  (Scanned /\ date # None /\ via \in {"line", "scan"}) =>
    /\ date \in CandidateDates(page.content)
    /\ StrictMinYear <= YearOf(date)
    /\ YearOf(date) <= StrictMaxYear

\* the dates that follow a label in a line, parsed and validated
LabelledDatesOfLine(line) ==
  {parse_date(SearchAlternatives(line, date_patterns[k], 1).group,
              FuzzyOutcomeOf(SearchAlternatives(line, date_patterns[k], 1).group, Installed)).date :
     k \in {j \in DOMAIN date_patterns :
              /\ date_patterns[j].labelled
              /\ SearchAlternatives(line, date_patterns[j], 1).pos # 0}} \ {None}

\* the first MaxLines lines of the body text that have such a date
LabelledLines(body) ==
  LET lines == SplitLines(body, MaxLines)
  IN  {i \in DOMAIN lines : LabelledDatesOfLine(lines[i]) # {}}

\* C15: if one of the first 30 lines of the body text has a date that
\* follows a label, parses and validates, the date returned is such a date
\* of the first such line
C15_LabelledDatesFirst ==
  (Scanned /\ LabelledLines(page.content) # {}) =>
    date \in LabelledDatesOfLine(
               SplitLines(page.content, MaxLines)[SetMin(LabelledLines(page.content))])

\* C16: the date of an article is that of the first source that yields one,
\* in the order index text, page metadata, body text: a date the index gave
\* is kept, the metadata are read only if the index gave none, the body text
\* only if neither gave one, and an excluded domain or a failed fetch leaves
\* the date as it was
C16_FirstSourceWins ==
  /\ pc \in {"fetch", "fetched"} /\ IndexDate # None => date = IndexDate
  /\ FetchDone /\ "meta" \in calls => IndexDate = None
  /\ FetchDone /\ "text" \in calls => IndexDate = None /\ MetaDate = None
  /\ FetchDone /\ ~Loaded => date = IndexDate /\ calls = {}
  /\ FetchDone /\ Loaded /\ IndexDate = None /\ MetaDate # None => date = MetaDate
  /\ FetchDone /\ Loaded /\ IndexDate = None /\ MetaDate = None /\ caught = "no" =>
       date = (IF page.content = << >> THEN None ELSE BodyDate)

\* the three sources name three different dates
C16_Witness ==
  /\ FetchDone
  /\ Loaded
  /\ IndexDate # None /\ MetaDate # None /\ BodyDate # None
  /\ IndexDate # MetaDate /\ MetaDate # BodyDate /\ IndexDate # BodyDate
  /\ date = IndexDate

\* ------------------------------------------------------------------------
\* Exceptions and the optional parser
\* ------------------------------------------------------------------------

\* C17: the date functions are total: whatever the text, the call returns a
\* date or None and no exception escapes it
C17_DateFunctionsNeverRaise ==
  pc \in {"google_parsed", "parsed", "reparsed"} => raised = "no"

\* what _parse_date returns where dateutil is not installed: the result of
\* the pattern table alone
TableAlone == parse_date(date_text, Raised("ImportError")).date

\* C19: with dateutil installed or not, _parse_date returns the same result
\* for the same text
C19_DateutilMakesNoDifference ==
  (pc = "parsed" /\ raised = "no") => date = TableAlone

\* ------------------------------------------------------------------------
\* A text that is empty or None
\* ------------------------------------------------------------------------

\* C18: for the empty string and for None, _extract_industries returns an
\* empty list and _extract_countries_with_counts an empty list and an empty
\* mapping, and neither raises
C18_EmptyOrNullTextIsNoError ==
  text \in {<< >>, None} =>
    /\ raised = "no"
    /\ industries = << >>
    /\ countries = << >>
    /\ country_mentions = EmptyDict

\* ------------------------------------------------------------------------
\* The batch
\* ------------------------------------------------------------------------

\* the processing of article i met an exception
Failed(i) == articles[i].url = None \/ articles[i].fault # "no"

\* what fetch_article_content returns for article i
ContentOf(i) ==
  fetch_article_content(None, articles[i].url, articles[i].page, Installed).returned

\* the text the classifiers get for article i
TextOf(i) == analysis_text(articles[i].title, articles[i].snippet, articles[i].full_content)

\* C20: an exception in the processing of one article does not keep the
\* others from being processed: after fetch_all_article_contents every
\* article has a string for full_content, that of its page unless its fetch
\* raised; after analyze_articles every article has industries, countries
\* and country_mentions that are not None, those of its text unless its
\* analysis raised
C20_BatchIsolatesFailures ==
  /\ pc \in {"analyze_all", "batch_done"} =>
       \A i \in DOMAIN articles :
         /\ articles[i].full_content # None
         /\ articles[i].url # None => articles[i].full_content = ContentOf(i)
  /\ pc = "batch_done" =>
       \A i \in DOMAIN articles :
         /\ articles[i].unset = {}
         /\ articles[i].fault = "no" =>
              /\ articles[i].industries = extract_industries(TextOf(i))
              /\ articles[i].countries = extract_countries_with_counts(TextOf(i), set_order).found
              /\ articles[i].country_mentions
                   = extract_countries_with_counts(TextOf(i), set_order).mentions
              /\ articles[i].attack_method = determine_attack_method(TextOf(i))

\* an article whose fetch raised and one whose analysis raised come before
\* an article that has a page, industries and countries
C20_Witness ==
  /\ pc = "batch_done"
  /\ \E i, j \in DOMAIN articles :
       /\ i < j
       /\ articles[i].url = None \/ articles[i].fault # "no"
       /\ ~Failed(j)
       /\ articles[j].full_content # << >>
       /\ articles[j].industries # << >>
       /\ articles[j].countries # << >>

\* ------------------------------------------------------------------------
\* The registry and the table
\* ------------------------------------------------------------------------

\* C22: every token of COUNTRY_KEYWORDS is resolved by a row of the table,
\* by its own key or by a key that is a substring of it: the call returns
\* that row's value and never reaches `return country.title()`
C22_RegistryResolvesThroughTable ==
  (pc = "normalized" /\ country \in COUNTRY_KEYWORDS) =>
     /\ mapping_hits(country) # {}
     /\ \E i \in mapping_hits(country) : normalized = mapping[i].value

\* the occurrence of tok at position i of s lies inside an occurrence of a
\* longer token of the same country
IsNested(s, tok, i) ==
  \E big \in TokensOf[CanonicalOf[tok]] :
    /\ Len(big) > Len(tok)
    /\ \E j \in 1..Len(s) :
         /\ IsOccurrence(s, big, j)
         /\ j <= i
         /\ i + Len(tok) <= j + Len(big)

\* the mentions of country c in s, a token inside a longer one not counted
DistinctMentions(s, c) ==
  Cardinality({m \in TokensOf[c] \X (1..Len(s)) :
                 IsOccurrence(s, m[1], m[2]) /\ ~IsNested(s, m[1], m[2])})

\* C26: country_mentions[c] is the number of mentions of c in the text, an
\* occurrence of a shorter token inside an occurrence of a longer token of
\* the same country not being counted: one 'great britain' counts 1
C26_EachMentionCountedOnce ==
  (CountriesDone /\ IsLowerCased(text)) =>
    \A c \in DOMAIN country_mentions : country_mentions[c] = DistinctMentions(text, c)

\* ------------------------------------------------------------------------
\* The lexicon
\* ------------------------------------------------------------------------

\* s is one term of the state-actor list and one term of the proxy list, in
\* either order, each followed by a space
IsOneTermOfEach(s) ==
  \E d \in DOMAIN SECURITY_SERVICES_direct : \E p \in DOMAIN SECURITY_SERVICES_proxy :
    \/ s = SECURITY_SERVICES_direct[d] \o Sp \o SECURITY_SERVICES_proxy[p] \o Sp
    \/ s = SECURITY_SERVICES_proxy[p] \o Sp \o SECURITY_SERVICES_direct[d] \o Sp

\* C30: a text made of one state-actor term and one proxy term scores 1 on
\* each side and is classified 'unknown'
C30_OneTermEachIsATie ==
  (pc = "analyzed" /\ IsOneTermOfEach(text)) =>
     /\ direct_score = 1
     /\ proxy_score = 1
     /\ attack_method = "unknown"

\* ------------------------------------------------------------------------
\* A month and a year, and texts that hold no date
\* ------------------------------------------------------------------------

\* nothing in t names a date: t is a number of one or two digits, or has no
\* digit and neither of the words 'yesterday' and 'today'
HoldsNoDate(t) ==
  \/ Len(t) <= 2 /\ \A i \in DOMAIN t : t[i] \in DigitSet
  \/ /\ \A i \in DOMAIN t : t[i] \notin DigitSet
     /\ ~Contains(Lower(t), <<"y","e","s","t","e","r","d","a","y">>)
     /\ ~Contains(Lower(t), <<"t","o","d","a","y">>)

\* C23: 'Month YYYY', the month a key of the months table in any letter case
\* and the year in [2000, 2030], gives YYYY-MM-01; a text that holds no date
\* gives None, never a date made of defaults
C23_MonthYearOrNone ==
  DateDone =>
    /\ \A w \in Words : \A y \in Years :
         (date_text = w \o Sp \o y /\ MonthNumberOf(w) # 0 /\ YearInWindow(y))
           => date = Canonical(y, MonthNumberOf(w), 1)
    /\ HoldsNoDate(Strip(date_text)) => date = None

\* ------------------------------------------------------------------------
\* The dates of the pattern table
\* ------------------------------------------------------------------------

\* C25: a date the pattern table returns is a string of 10 characters
\* YYYY-MM-DD that names a day of the calendar with its year in
\* [2000, 2030], and it is what the formatter of the pattern named made of
\* that pattern's match; a pattern whose formatter gives None or a date
\* that fails _validate_date is not the one the result comes from
C25_TableDatesAreCanonical ==
  (TableRan /\ date # None) =>
     /\ Len(date) = 10
     /\ IsCalendarDate(date)
     /\ InWindow(date)
     /\ \E k \in MatchingPatterns(TableInput) :
          /\ patterns[k].name = via
          /\ Formatter(k, Groups(TableInput, k, Search(TableInput, patterns[k].regex))) = date
     /\ \A k \in MatchingPatterns(TableInput) \ GoodPatterns(TableInput) :
          patterns[k].name # via

\* the table returned a date although a pattern that matched the text gave
\* no date or one that failed the validation
C25_Witness ==
  /\ TableRan
  /\ date # None
  /\ MatchingPatterns(TableInput) \ GoodPatterns(TableInput) # {}
  /\ \E k \in GoodPatterns(TableInput) : patterns[k].name = via

\* ------------------------------------------------------------------------
\* The file of results
\* ------------------------------------------------------------------------

\* C27: after save_results and load_results every article has the
\* industries, countries, country_mentions, attack_method and date that
\* were written to the file
C27_SaveLoadRoundTrip ==
  pc = "loaded" =>
    /\ Len(articles) = Len(file)
    /\ \A i \in DOMAIN articles :
         /\ articles[i].industries = file[i].industries
         /\ articles[i].countries = file[i].countries
         /\ articles[i].country_mentions = file[i].country_mentions
         /\ articles[i].attack_method = file[i].attack_method
         /\ articles[i].date = file[i].date

\* ------------------------------------------------------------------------
\* The pages of results
\* ------------------------------------------------------------------------

results_per_page == 10
max_pages == 30

\* (max_results + results_per_page - 1) // results_per_page, without the
\* limit of max_pages
pages_needed_uncapped(n) == (n + results_per_page - 1) \div results_per_page

\* pages_needed = min((max_results + results_per_page - 1) // results_per_page, max_pages)
pages_needed(n) ==
  SetMin({(n + results_per_page - 1) \div results_per_page, max_pages})

\* the result containers of one page: at most MaxPerPage of them, each with
\* the text of its h3 and the href of its link
MaxPerPage == 2

FirstUrl == <<"h","t","t","p","s",":","/","/","a",".","e","x","a","m","p","l","e","/","1">>
SecondUrl == <<"h","t","t","p","s",":","/","/","b",".","e","x","a","m","p","l","e","/","2">>
GoogleSearchUrl == <<"h","t","t","p","s",":","/","/","w","w","w",".","g","o","o","g","l","e",".","c","o","m","/","s","e","a","r","c","h","?","q","=","x">>
JavascriptUrl == <<"j","a","v","a","s","c","r","i","p","t",":","v","o","i","d","(","0",")">>
ResultUrls == {FirstUrl, SecondUrl}

RawResults ==
  {[title |-> <<"t">>, href |-> u] : u \in ResultUrls \cup {GoogleSearchUrl, JavascriptUrl}}
    \cup {[title |-> << >>, href |-> FirstUrl], [title |-> <<"t">>, href |-> << >>]}

RawPages == UNION {[1..n -> RawResults] : n \in 0..MaxPerPage}

\* what driver.get(url) and the page it shows give: an exception, or the
\* result containers of the page
PageOutcomes ==
  {[error |-> TRUE, raw |-> << >>]} \cup {[error |-> FALSE, raw |-> r] : r \in RawPages}

StartsWith(s, prefix) == Len(s) >= Len(prefix) /\ SubSeq(s, 1, Len(prefix)) = prefix

\* if not title: continue
\* if not url or url.startswith('javascript:') or 'google.com' in url and '/search' in url: continue
IsSkipped(r) ==
  \/ r.title = << >>
  \/ r.href = << >>
  \/ StartsWith(r.href, <<"j","a","v","a","s","c","r","i","p","t",":">>)
  \/ Contains(r.href, <<"g","o","o","g","l","e",".","c","o","m">>) /\ Contains(r.href, <<"/","s","e","a","r","c","h">>)

\* for result in results: ... if url in seen_urls: continue; seen_urls.add(url);
\* articles.append(Article(title=title, url=url, snippet=snippet, date=date))
RECURSIVE ResultLoop(_, _, _, _)
ResultLoop(raw, n, seen_urls, found) ==
  IF n > Len(raw) THEN found
  ELSE IF IsSkipped(raw[n]) \/ raw[n].href \in seen_urls
       THEN ResultLoop(raw, n + 1, seen_urls, found)
       ELSE ResultLoop(raw, n + 1, seen_urls \cup {raw[n].href},
                       Append(found, NewArticle(raw[n].title, raw[n].href, << >>, EmptyPage, "no")))

extract_search_results(raw) == ResultLoop(raw, 1, {}, << >>)

\* [a.url for a in articles]
UrlsOf(list) == [i \in DOMAIN list |-> list[i].url]

\* except Exception: if page == 0: break; else: continue
after_page_error_always_break(pg) == "break"

after_page_error(pg) == IF pg = 0 THEN "break" ELSE "continue"

\* the body of the for loop for the page pg: the list articles after it and
\* whether the loop goes on
page_turn(outcome, pg, list, limit) ==
  IF outcome.error THEN [articles |-> list, then |-> after_page_error(pg)]
  ELSE TheOne({
    IF page_articles = << >> THEN [articles |-> list, then |-> "break"]
    ELSE IF pg > 0 /\ page_articles[1].url \in Range(UrlsOf(list))
         THEN [articles |-> list, then |-> "break"]
    ELSE [articles |-> list \o page_articles,
          then |-> IF Len(list \o page_articles) >= limit THEN "break" ELSE "continue"]
    : page_articles \in {extract_search_results(outcome.raw)}})

\* articles[:max_results]
SliceTo(list, n) ==
  IF n >= 0 THEN SubSeq(list, 1, SetMin({n, Len(list)}))
  ELSE SubSeq(list, 1, SetMax({Len(list) + n, 0}))

\* the values of max_results the model draws from
MaxResultsInputs == {0, 1, 2, 11, 1000}

InitSearch ==
  /\ InitResults
  /\ NoTextInput
  /\ NoDateInput
  /\ NoPageInput
  /\ NoCalls
  /\ articles = << >>
  /\ idx = 0
  /\ file = << >>
  /\ pc = "search"
  /\ max_results \in MaxResultsInputs
  /\ search_page = 0
  /\ collected = << >>
  /\ pages_loaded = 0
  /\ last = NoPage

\* search_google up to the for loop: if not self.driver: raise RuntimeError;
\* self.driver.get("https://www.google.com") ... except Exception: raise
StartSearch ==
  /\ pc = "search"
  /\ \E start \in {"ok", "RuntimeError", "WebDriverException"} :
       IF start = "ok"
       THEN /\ raised' = raised
            /\ pc' = IF pages_needed(max_results) > 0 THEN "search_loop" ELSE "search_end"
       ELSE /\ raised' = start
            /\ pc' = "raised"
  /\ UNCHANGED <<classify_vars, date_rest, fetch_vars, batch_vars, search_vars, order_vars>>

\* one turn of `for page in range(pages_needed)`
LoadPage ==
  /\ pc = "search_loop"
  /\ \E outcome \in PageOutcomes :
       \E turn \in {page_turn(outcome, search_page, collected, max_results)} :
         /\ collected' = turn.articles
         /\ last' = [error |-> outcome.error,
                     urls |-> IF outcome.error THEN << >>
                              ELSE UrlsOf(extract_search_results(outcome.raw))]
         /\ pages_loaded' = pages_loaded + 1
         /\ IF turn.then = "break" \/ search_page + 1 >= pages_needed(max_results)
            THEN pc' = "search_end" /\ search_page' = search_page
            ELSE pc' = pc /\ search_page' = search_page + 1
  /\ UNCHANGED <<classify_vars, date_vars, fetch_vars, batch_vars, max_results, order_vars>>

\* self.articles = articles[:max_results]; return self.articles
ReturnArticles ==
  /\ pc = "search_end"
  /\ articles' = SliceTo(collected, max_results)
  /\ pc' = "returned"
  /\ UNCHANGED <<classify_vars, date_vars, fetch_vars, idx, file, search_vars, order_vars>>

NextSearch ==
  \/ StartSearch
  \/ LoadPage
  \/ ReturnArticles

\* the body of search_google is sequential code: a step that can be taken
\* is taken
SpecSearch == InitSearch /\ [][NextSearch]_vars /\ WF_vars(NextSearch)

\* ------------------------------------------------------------------------
\* Properties of the search
\* ------------------------------------------------------------------------

\* the least q with q * d >= n
CeilDiv(n, d) == CHOOSE q \in 0..n : q * d >= n /\ (q = 0 \/ (q - 1) * d < n)

\* min(ceil(max_results / 10), 30)
PageLimit == IF CeilDiv(max_results, 10) < 30 THEN CeilDiv(max_results, 10) ELSE 30

KnownUrls == {collected[i].url : i \in DOMAIN collected}

\* C24: whatever the pages give, search_google loads at most
\* min(ceil(max_results / 10), 30) pages of results, comes to its end, and
\* returns and stores a list of at most max_results articles
C24_SearchIsBounded ==
  /\ [](/\ pages_loaded <= PageLimit
        /\ pc = "returned" => Len(articles) <= max_results)
  /\ <>(pc \in {"returned", "raised"})

\* every page up to the limit was loaded, and the pages gave more articles
\* than max_results
C24_Witness ==
  /\ pc = "returned"
  /\ PageLimit >= 1
  /\ pages_loaded = PageLimit
  /\ Len(collected) > max_results
  /\ Len(articles) = max_results

\* C28: the list search_google returns holds no two articles with the same
\* url
C28_NoDuplicateUrls ==
  pc = "returned" =>
    \A i, j \in DOMAIN articles : i # j => articles[i].url # articles[j].url

\* C29: a turn of the loop ends the pagination when the page gives no result,
\* when the url of its first result is already collected (on a page after
\* the first), and when max_results articles are collected; an error on the
\* first page ends it with no articles; an error on a later page leaves the
\* collected articles as they are and the loop goes on to the next page
C29_PaginationStops ==
  [][pc = "search_loop" =>
       CASE last'.error /\ search_page = 0 ->
              pc' = "search_end" /\ collected' = << >>
         [] last'.error /\ search_page > 0 ->
              /\ collected' = collected
              /\ search_page + 1 < PageLimit =>
                   pc' = "search_loop" /\ search_page' = search_page + 1
         [] ~last'.error /\ last'.urls = << >> ->
              pc' = "search_end" /\ collected' = collected
         [] /\ ~last'.error /\ last'.urls # << >>
            /\ search_page > 0 /\ last'.urls[1] \in KnownUrls ->
              pc' = "search_end" /\ collected' = collected
         [] OTHER ->
              /\ UrlsOf(collected') = UrlsOf(collected) \o last'.urls
              /\ Len(collected') >= max_results => pc' = "search_end"
              /\ (Len(collected') < max_results /\ search_page + 1 < PageLimit) =>
                   pc' = "search_loop" /\ search_page' = search_page + 1]_vars

\* after an error on a page that is not the first the loop is at the next
\* page with the articles collected before
C29_Witness ==
  /\ pc = "search_loop"
  /\ last.error
  /\ search_page >= 2
  /\ collected # << >>

\* ------------------------------------------------------------------------
\* The classifiers called in any order
\* ------------------------------------------------------------------------

\* the texts of two articles
OrderTexts ==
  {<<"p","o","l","a","n","d"," ","f","r","a","n","c","e"," ","g","r","u"," ">>,
   <<"g","r","e","a","t"," ","b","r","i","t","a","i","n"," ">>,
   <<"h","o","s","p","i","t","a","l"," ","r","a","n","s","o","m","w","a","r","e"," ","g","a","n","g","s"," ">>,
   <<"u","k"," ","u","k","r","a","i","n","e"," ">>,
   << >>}

Classifiers == {"industries", "countries", "attack"}

\* what a classifier returns for text t in a process whose set
\* COUNTRY_KEYWORDS iterates in the given order
ResultOf(name, t, order) ==
  CASE name = "industries" -> extract_industries(t)
    [] name = "countries" -> extract_countries_with_counts(t, order)
    [] name = "attack" -> determine_attack_method(t)

\* one place for the results of a classifier, whatever the article
keep_result_shared(out, key, value) ==
  [k \in (DOMAIN out) \cup {key} |-> IF k[2] = key[2] THEN value ELSE out[k]]

\* the caller keeps the value returned for article key[1]
keep_result(out, key, value) ==
  [k \in (DOMAIN out) \cup {key} |-> IF k = key THEN value ELSE out[k]]

InitOrder ==
  /\ InitResults
  /\ NoDateInput
  /\ NoPageInput
  /\ NoSearch
  /\ articles = << >>
  /\ idx = 0
  /\ file = << >>
  /\ text = << >>
  /\ country = << >>
  /\ set_order \in SetOrders
  /\ pc = "calls"
  /\ order_texts \in [1..2 -> OrderTexts]
  /\ outputs = << >>

\* a call of one classifier for one article, each call made once, in any
\* order
Call(name) ==
  /\ pc = "calls"
  /\ \E i \in DOMAIN order_texts :
       /\ <<i, name>> \notin DOMAIN outputs
       /\ outputs' = keep_result(outputs, <<i, name>>,
                                 ResultOf(name, order_texts[i], set_order))
  /\ UNCHANGED <<pc, classify_vars, date_vars, fetch_vars, batch_vars, search_vars,
                 order_texts>>

\* self._extract_industries(text)
CallExtractIndustries == Call("industries")

\* self._extract_countries_with_counts(text)
CallExtractCountriesWithCounts == Call("countries")

\* self._determine_attack_method(text)
CallDetermineAttackMethod == Call("attack")

NextOrder ==
  \/ CallExtractIndustries
  \/ CallExtractCountriesWithCounts
  \/ CallDetermineAttackMethod

SpecOrder == InitOrder /\ [][NextOrder]_vars

=============================================================================
